---- MODULE Spec2Model ----
(***************************************************************************)
(* Model of the MCP travel agent's orchestrator (app/agent/orchestrator.py) *)
(* and of its tool client (app/agent/clients.py).                          *)
(*                                                                         *)
(* One handle_query coroutine runs on an asyncio event loop.  The loop is  *)
(* modelled by its FIFO ready queue and its iterations: an iteration first *)
(* takes the I/O and timer events that are due, each of which puts the     *)
(* coroutine waiting for it at the back of the queue, and then runs the    *)
(* coroutines that are in the queue at that moment, each from one          *)
(* suspension point (an await that really waits) to the next as one atomic *)
(* step.  Coroutines made runnable during an iteration run in the next.    *)
(*                                                                         *)
(* Python values are abstracted: a dict is represented by its set of keys, *)
(* and None is a value of its own.                                         *)
(*                                                                         *)
(* Further specifications over the same variables model the RateLimiter of *)
(* the tool servers (LimiterSpec), one invocation of geocode_location or   *)
(* search_pois (ServerSpec), of get_trivia (TriviaSpec) and of              *)
(* get_wikipedia_info (WikiSpec; EnrichSpec has both), the query parser    *)
(* (ParserSpec), handle_query on varying queries (QuerySpec), the HTTP     *)
(* endpoints of app/main.py (ApiSpec), handle_query invocations that run   *)
(* at the same time (SharedSpec), and handle_query and RateLimiter.wait    *)
(* under fair scheduling (FairSpec, FairLimiterSpec).                      *)
(***************************************************************************)
EXTENDS Integers, Sequences, FiniteSets, TLC

\* ------------------------------------------------------------------------
\* Names
\* ------------------------------------------------------------------------

\* The four client-map keys handle_query looks up.
Tools == {"geocoding", "poi", "wikipedia", "trivia"}

\* The tools called through call_optional, in the order gather receives them.
GatherOrder == <<"wikipedia", "trivia">>

Optional == {GatherOrder[i] : i \in 1..Len(GatherOrder)}

\* The exception types that can arise inside handle_query; all of them are
\* subclasses of Exception.
Exceptions == {"KeyError", "TimeoutError", "ConnectError", "McpError"}

\* ------------------------------------------------------------------------
\* Python values
\* ------------------------------------------------------------------------

NoneV == [none |-> TRUE, keys |-> {}]

Dict(k) == [none |-> FALSE, keys |-> k]

\* Python truthiness of None and of a dict.
Truthy(v) == ~v.none /\ v.keys # {}

\* a or b
Or(a, b) == IF Truthy(a) THEN a ELSE b

\* ------------------------------------------------------------------------
\* What a tool server can do with one invocation (the environment)
\* ------------------------------------------------------------------------

Hang == [kind |-> "hang", exc |-> "", isError |-> FALSE, structuredContent |-> NoneV]

Fails(e) == [kind |-> "error", exc |-> e, isError |-> FALSE, structuredContent |-> NoneV]

\* The tool itself failed: the server answers with an error result that
\* carries no structured output.
ToolError == [kind |-> "result", exc |-> "", isError |-> TRUE, structuredContent |-> NoneV]

Structured(k) == [kind |-> "result", exc |-> "", isError |-> FALSE, structuredContent |-> Dict(k)]

Contents(t) ==
    IF t = "geocoding"
    THEN {{}, {"lat"}, {"lon"}, {"lat", "lon"}}
    ELSE {{}, {"content"}}

RemoteBehaviours(t) ==
    {Hang, Fails("ConnectError"), Fails("McpError"), ToolError}
        \cup {Structured(k) : k \in Contents(t)}

\* ------------------------------------------------------------------------
\* MCPClient.call
\* ------------------------------------------------------------------------

Raises(e) == [kind |-> "raise", exc |-> e, data |-> NoneV]

Returns(v) == [kind |-> "return", exc |-> "", data |-> v]

\* The result of MCPClient.call when the remote side behaves as r (r is not
\* Hang): an exception of the transport or of the session is logged and
\* re-raised, any result that arrives is returned as
\* `result.structuredContent or {}`.
MCPClient_call(r) ==
    IF r.kind = "error"
    THEN Raises(r.exc)
    ELSE Returns(Or(r.structuredContent, Dict({})))

\* ------------------------------------------------------------------------
\* State
\* ------------------------------------------------------------------------

VARIABLES
    clients,        \* keys of the client map given to AgentOrchestrator
    remote,         \* how each tool server answers an invocation
    pc,             \* position of handle_query
    results,        \* the local list `results`
    geocode_data,   \* the local `geocode_data`
    task,           \* state of each call_optional task created by gather
    call,           \* state of each client call
    calls,          \* number of invocations of each client's call()
    timer,          \* state of the wait_for timeout of each call
    ready,          \* the event loop's FIFO queue of runnable coroutines
    ntodo,          \* coroutines still to run in the current loop iteration
    completed,      \* tools in the order in which their calls ended
    response,       \* the result list of the AgentResponse returned
    raisedExc,      \* the exception handle_query raised, "" if none
    last_payload    \* the payload of the latest call() of each client

orchVars == <<clients, remote, pc, results, geocode_data, task, call, calls,
              last_payload, timer, ready, ntodo, completed, response, raisedExc>>

\* The user's query, and the query parser (app/agent/query_parser.py) with
\* the language model behind it.
VARIABLES
    query,          \* the raw query text
    llm,            \* how the language model answers the parser's request
    parsed          \* what parse_user_query did: nothing yet, or its result

parserVars == <<query, llm, parsed>>

\* One RateLimiter object of a tool server and the coroutines that call its
\* wait() (app/mcp_servers/geocoding/server.py, poi_discovery/server.py).
VARIABLES
    now,            \* the reading of time.monotonic(), in ticks
    last_call,      \* RateLimiter._last_call
    lock,           \* the caller that holds RateLimiter._lock, NoCaller if free
    waiters,        \* the callers queued in _lock.acquire(), in arrival order
    wpc,            \* position of each caller in wait()
    seen,           \* per caller: the `now` and `_last_call` it read
    slept,          \* per caller: the argument of asyncio.sleep, NoSleep if none
    wake_at,        \* per caller: the time at which its sleep is over
    returns         \* the clock readings at which calls of wait() returned

limiterVars == <<now, last_call, lock, waiters, wpc, seen, slept, wake_at, returns>>

\* One invocation of a tool of a tool server: geocode_location
\* (geocoding/server.py), search_pois (poi_discovery/server.py) or get_trivia
\* (trivia/server.py).  The invocation is caller Handler of the server's
\* RateLimiter.
VARIABLES
    tool,           \* the server whose tool is invoked, "none" if none is
    request,        \* the request model passed to the tool
    upstream,       \* how the upstream API answers the server's HTTP request
    outcome         \* what the tool did: nothing yet, a return value, a raise

handlerVars == <<tool, request, upstream, outcome>>

\* The state of the tool servers, which handle_query does not touch.
serverVars == <<limiterVars, handlerVars>>

\* The HTTP endpoints of app/main.py in front of the orchestrator.
VARIABLES
    query_answer,   \* the answer of POST /query, NoAnswer until it is given
    health_check,   \* the latest GET /health/{service}: the service named,
                    \* how its handshake went, what MCPClient.health did
    health_answer   \* the answer of that GET /health/{service}

apiVars == <<query_answer, health_check, health_answer>>

\* handle_query invocations that run at the same time on the one
\* AgentOrchestrator of app/main.py.
VARIABLES
    qpc,            \* per invocation: its position
    qresults,       \* per invocation: its local list `results`
    qgeo,           \* per invocation: its local `geocode_data`
    qtask,          \* per invocation: the state of its call_optional tasks
    made,           \* per invocation: the call it made of each tool: in
                    \* flight, returned, or failed (raised or timed out)
    qresponse       \* per invocation: the result list it returned

sharedVars == <<qpc, qresults, qgeo, qtask, made, qresponse>>

appVars == <<apiVars, sharedVars>>

vars == <<orchVars, parserVars, serverVars, appVars>>

\* ------------------------------------------------------------------------
\* Bounds and units
\* ------------------------------------------------------------------------

\* Clock ticks per second: the resolution of the modelled clock.
TicksPerSec == 3

\* The clock is not advanced beyond this reading.
MaxClock == 9

\* The latest clock reading at which a run starts.
MaxStart == 1

\* The handle_query invocations that run at the same time.
NumRequests == 2

\* The number of coroutines that call wait() on the one limiter.
NumCallers == 3

\* The longest base sequence of elements of an Overpass reply.
MaxBase == 3

\* The most repetitions of the base sequence in an Overpass reply.
MaxRep == 8

\* The most related topics in a DuckDuckGo answer.
MaxRelated == 2

\* ------------------------------------------------------------------------
\* RateLimiter: constants and the state in which nobody uses it
\* ------------------------------------------------------------------------

\* rate_per_sec of the geocoding and of the Overpass limiter.
RatePerSec == 1

\* RateLimiter.__init__: self._interval = 1.0 / rate_per_sec
Interval == TicksPerSec \div RatePerSec

\* The Wikipedia server's limiter: RateLimiter(rate_per_sec=1.2), whose
\* interval of 1.0 / 1.2 = 5/6 seconds is counted in whole ticks: a clock
\* reading is 5/6 seconds after another iff it is this many ticks after it.
WikipediaInterval == (5 * TicksPerSec + 5) \div 6

\* self._interval of the limiter of the server that runs.
_interval == IF tool = "wikipedia" THEN WikipediaInterval ELSE Interval

Callers == 1..NumCallers

NoCaller == 0

NoSleep == -1

NotSeen == [now |-> -1, last |-> -1]

\* RateLimiter.__init__, and no caller yet.
LimiterNew ==
    /\ last_call = 0
    /\ lock = NoCaller
    /\ waiters = <<>>
    /\ wpc = [p \in Callers |-> "idle"]
    /\ seen = [p \in Callers |-> NotSeen]
    /\ slept = [p \in Callers |-> NoSleep]
    /\ wake_at = [p \in Callers |-> 0]
    /\ returns = <<>>

LimiterIdle == now = 0 /\ LimiterNew

\* The caller of wait() that is the tool invocation.
Handler == 1

\* The tool has not done anything yet.
NotRun == [kind |-> "none", exc |-> "", msg |-> "", value |-> <<>>]

\* No tool is invoked.
HandlerIdle ==
    /\ tool = "none"
    /\ request = <<>>
    /\ upstream = <<>>
    /\ outcome = NotRun

ServersIdle == LimiterIdle /\ HandlerIdle

\* No call() of the client yet.
NoPayload == {}

\* parse_user_query has not run.
NotParsed == [kind |-> "none", exc |-> "", msg |-> "", value |-> <<>>]

\* _client.chat.completions.create raises (the API cannot be reached).
LLMRaises == [kind |-> "raise", content |-> <<>>]

\* No answer of an endpoint yet.
NoAnswer == [status |-> 0, detail |-> "", body |-> <<>>]

\* No health check yet.
NoCheck == [service |-> "", handshake |-> "", result |-> ""]

\* No request has reached the HTTP endpoints.
ApiIdle ==
    /\ query_answer = NoAnswer
    /\ health_check = NoCheck
    /\ health_answer = NoAnswer

Requests == 1..NumRequests

\* The invocation has not called the tool.
NoCall == "none"

\* No invocation of handle_query runs beside the one of `pc`.
SharedIdle ==
    /\ qpc = [r \in Requests |-> "idle"]
    /\ qresults = [r \in Requests |-> <<>>]
    /\ qgeo = [r \in Requests |-> NoneV]
    /\ qtask = [r \in Requests |-> [n \in Optional |-> "none"]]
    /\ made = [r \in Requests |-> [t \in Tools |-> NoCall]]
    /\ qresponse = [r \in Requests |-> <<>>]

AppIdle == ApiIdle /\ SharedIdle

\* A query whose parser is not run, its language model out of reach.
ParserIdle ==
    /\ query = "museums in Rome"
    /\ llm = LLMRaises
    /\ parsed = NotParsed

\* ------------------------------------------------------------------------
\* Pieces of handle_query
\* ------------------------------------------------------------------------

Caught_runtime(e) == e \in {"ConnectError", "McpError"}

\* `except Exception` (lines 52, 67, 77).
Caught(e) == e \in Exceptions

FailedGeocodeData_stale == Dict({"lat", "lon"})

\* The value geocode_data gets in the except branch (line 54).
FailedGeocodeData == NoneV

HasCoords_latOnly(gd) == Truthy(gd) /\ "lat" \in gd.keys

\* `geocode_data and {"lat", "lon"} <= geocode_data.keys()` (line 56).
HasCoords(gd) == Truthy(gd) /\ {"lat", "lon"} \subseteq gd.keys

AppendResult_front(res, src, data) == <<[source |-> src, data |-> data]>> \o res

\* results.append(ToolResult(source=src, data=data)) (lines 51, 66, 76).
AppendResult(res, src, data) == Append(res, [source |-> src, data |-> data])

OnException_entry(res, src) == Append(res, [source |-> src, data |-> Dict({})])

\* What an except branch does to the result list: it only logs.
OnException(res, src) == res

\* A field of a payload, as a pair of its key and its value.
Field(k, v) == <<k, v>>

\* The value geocoding returned under key k.
GeocodeValue(k) == IF k = "lat" THEN "geocode_data[lat]" ELSE "geocode_data[lon]"

Payload_coordsOnly(t) ==
    CASE t = "geocoding" -> {Field("location_name", query)}
      [] t = "poi" -> {Field("latitude", GeocodeValue("lat")),
                       Field("longitude", GeocodeValue("lon"))}
      [] t = "wikipedia" -> {Field("poi_name", query)}
      [] t = "trivia" -> {Field("topic", query)}

\* The payload handle_query passes to the client of tool t (lines 48, 58-62
\* and 83-84).
Payload(t) ==
    CASE t = "geocoding" -> {Field("location_name", query)}
      [] t = "poi" -> {Field("latitude", GeocodeValue("lat")),
                       Field("longitude", GeocodeValue("lon")),
                       Field("category", "tourism")}
      [] t = "wikipedia" -> {Field("poi_name", query)}
      [] t = "trivia" -> {Field("topic", query)}

Bounded_sequential(t) == t \in {"geocoding", "poi"}

\* Every remote call is wrapped in asyncio.wait_for(..., timeout=self.timeout)
\* (lines 47, 63, 73).
Bounded(t) == t \in Tools

\* What `await asyncio.wait_for(self.clients[t].call(payload), ...)` delivers
\* to the coroutine that waited for call t, once that call has ended.
wait_for(t) ==
    IF call[t] = "expired"
    THEN Raises("TimeoutError")
    ELSE MCPClient_call(remote[t])

\* Coroutine x is the next to run in the current loop iteration.
Runnable(x) == ntodo > 0 /\ Head(ready) = x

\* The coroutine that awaits call t.
Waiter(t) == IF t \in Optional THEN t ELSE "main"

Range(s) == {s[i] : i \in 1..Len(s)}

Sources(res) == {res[i].source : i \in 1..Len(res)}

GatherReady_first(tk) ==
    \E n \in Optional : tk[n] = "done" \/ tk[n] \in Exceptions

\* asyncio.gather without return_exceptions: its future is done when all
\* children have finished, or as soon as one child ended with an exception.
GatherReady(tk) ==
    \/ \A n \in Optional : tk[n] = "done"
    \/ \E n \in Optional : tk[n] \in Exceptions

\* The ready queue after a call_optional task has ended: handle_query is
\* woken once, when the future of gather becomes done.
WakeGather(rdy, tk) ==
    IF pc = "await_gather" /\ "main" \notin Range(rdy) /\ GatherReady(tk)
    THEN Append(rdy, "main")
    ELSE rdy

\* The exception e leaves handle_query.
Propagate(e, rdy, cs) ==
    /\ pc' = "raised"
    /\ raisedExc' = e
    /\ ready' = rdy
    /\ call' = cs
    /\ UNCHANGED <<task, calls, last_payload, timer>>

\* Lines 82-85: gather wraps both call_optional coroutines in tasks, which
\* the loop schedules in argument order, and handle_query suspends.
StartGather(rdy, cs) ==
    /\ pc' = "await_gather"
    /\ task' = [n \in Optional |-> "ready"]
    /\ ready' = rdy \o GatherOrder
    /\ call' = cs
    /\ UNCHANGED <<raisedExc, calls, last_payload, timer>>

PoiStep_concurrent(gd, rdy, cs) ==
    IF HasCoords(gd) /\ "poi" \in clients
    THEN /\ pc' = "await_gather"
         /\ call' = [cs EXCEPT !["poi"] = "inflight"]
         /\ calls' = [calls EXCEPT !["poi"] = @ + 1]
         /\ last_payload' = [last_payload EXCEPT !["poi"] = Payload("poi")]
         /\ timer' = [timer EXCEPT !["poi"] = IF Bounded("poi") THEN "armed" ELSE "off"]
         /\ task' = [n \in Optional |-> "ready"]
         /\ ready' = rdy \o GatherOrder
         /\ UNCHANGED raisedExc
    ELSE StartGather(rdy, cs)

\* Lines 56-68 up to the await: with coordinates, look up the POI client and
\* start its call; without, go on to the optional calls.
PoiStep(gd, rdy, cs) ==
    IF HasCoords(gd)
    THEN IF "poi" \in clients
         THEN /\ pc' = "await_poi"
              /\ call' = [cs EXCEPT !["poi"] = "inflight"]
              /\ calls' = [calls EXCEPT !["poi"] = @ + 1]
              /\ last_payload' = [last_payload EXCEPT !["poi"] = Payload("poi")]
              /\ timer' = [timer EXCEPT !["poi"] = IF Bounded("poi") THEN "armed" ELSE "off"]
              /\ ready' = rdy
              /\ UNCHANGED <<task, raisedExc>>
         ELSE IF Caught("KeyError")
              THEN StartGather(rdy, [cs EXCEPT !["poi"] = "nokey"])
              ELSE Propagate("KeyError", rdy, [cs EXCEPT !["poi"] = "nokey"])
    ELSE StartGather(rdy, cs)

\* ------------------------------------------------------------------------
\* Initial states
\* ------------------------------------------------------------------------

\* Any client map and any behaviour of the configured tool servers.  A tool
\* without a client is never contacted, so its server's behaviour is fixed.
Init ==
    /\ clients \in SUBSET Tools
    /\ remote \in [Tools -> UNION {RemoteBehaviours(t) : t \in Tools}]
    /\ \A t \in Tools :
          IF t \in clients THEN remote[t] \in RemoteBehaviours(t) ELSE remote[t] = Hang
    /\ pc = "start"
    /\ results = <<>>
    /\ geocode_data = NoneV
    /\ task = [n \in Optional |-> "none"]
    /\ call = [t \in Tools |-> "idle"]
    /\ calls = [t \in Tools |-> 0]
    /\ timer = [t \in Tools |-> "off"]
    /\ ready = <<"main">>
    /\ ntodo = 0
    /\ completed = <<>>
    /\ response = <<>>
    /\ raisedExc = ""
    /\ last_payload = [t \in Tools |-> NoPayload]
    /\ ParserIdle
    /\ AppIdle
    /\ ServersIdle

\* ------------------------------------------------------------------------
\* handle_query
\* ------------------------------------------------------------------------

\* Lines 41-50: from the call of handle_query to its first suspension.
HandleQuery ==
    /\ UNCHANGED <<parserVars, serverVars, appVars>>
    /\ pc = "start"
    /\ Runnable("main")
    /\ ntodo' = ntodo - 1
    /\ results' = <<>>
    /\ IF "geocoding" \in clients
       THEN /\ pc' = "await_geocoding"
            /\ call' = [call EXCEPT !["geocoding"] = "inflight"]
            /\ calls' = [calls EXCEPT !["geocoding"] = @ + 1]
            /\ last_payload' = [last_payload EXCEPT !["geocoding"] = Payload("geocoding")]
            /\ timer' = [timer EXCEPT !["geocoding"] =
                            IF Bounded("geocoding") THEN "armed" ELSE "off"]
            /\ ready' = Tail(ready)
            /\ UNCHANGED <<geocode_data, task, raisedExc>>
       ELSE IF Caught("KeyError")
            THEN /\ geocode_data' = FailedGeocodeData
                 /\ PoiStep(FailedGeocodeData, Tail(ready),
                            [call EXCEPT !["geocoding"] = "nokey"])
            ELSE /\ geocode_data' = geocode_data
                 /\ Propagate("KeyError", Tail(ready),
                              [call EXCEPT !["geocoding"] = "nokey"])
    /\ UNCHANGED <<clients, remote, completed, response>>

\* Lines 47-68: handle_query resumes after the geocoding call has ended.
GeocodingDone ==
    /\ UNCHANGED <<parserVars, serverVars, appVars>>
    /\ pc = "await_geocoding"
    /\ Runnable("main")
    /\ ntodo' = ntodo - 1
    /\ LET out == wait_for("geocoding") IN
       IF out.kind = "return"
       THEN /\ results' = AppendResult(results, "geocoding", out.data)
            /\ geocode_data' = out.data
            /\ PoiStep(out.data, Tail(ready), call)
       ELSE IF Caught(out.exc)
            THEN /\ results' = OnException(results, "geocoding")
                 /\ geocode_data' = FailedGeocodeData
                 /\ PoiStep(FailedGeocodeData, Tail(ready), call)
            ELSE /\ UNCHANGED <<results, geocode_data>>
                 /\ Propagate(out.exc, Tail(ready), call)
    /\ UNCHANGED <<clients, remote, completed, response>>

PoiDone_retry ==
    /\ UNCHANGED <<parserVars, serverVars, appVars>>
    /\ pc = "await_poi"
    /\ Runnable("main")
    /\ ntodo' = ntodo - 1
    /\ LET out == wait_for("poi") IN
       IF out.kind = "return"
       THEN /\ results' = AppendResult(results, "poi", out.data)
            /\ StartGather(Tail(ready), call)
       ELSE IF calls["poi"] < 2
            THEN /\ pc' = "await_poi"
                 /\ call' = [call EXCEPT !["poi"] = "inflight"]
                 /\ calls' = [calls EXCEPT !["poi"] = @ + 1]
                 /\ last_payload' = [last_payload EXCEPT !["poi"] = Payload("poi")]
                 /\ timer' = [timer EXCEPT !["poi"] = "armed"]
                 /\ ready' = Tail(ready)
                 /\ UNCHANGED <<results, task, raisedExc>>
            ELSE /\ results' = OnException(results, "poi")
                 /\ StartGather(Tail(ready), call)
    /\ UNCHANGED <<clients, remote, geocode_data, completed, response>>

\* Lines 63-85: handle_query resumes after the POI call has ended.
PoiDone ==
    /\ UNCHANGED <<parserVars, serverVars, appVars>>
    /\ pc = "await_poi"
    /\ Runnable("main")
    /\ ntodo' = ntodo - 1
    /\ LET out == wait_for("poi") IN
       IF out.kind = "return"
       THEN /\ results' = AppendResult(results, "poi", out.data)
            /\ StartGather(Tail(ready), call)
       ELSE IF Caught(out.exc)
            THEN /\ results' = OnException(results, "poi")
                 /\ StartGather(Tail(ready), call)
            ELSE /\ results' = results
                 /\ Propagate(out.exc, Tail(ready), call)
    /\ UNCHANGED <<clients, remote, geocode_data, completed, response>>

\* Lines 71-75: the first step of the task call_optional(n, ...).
OptionalStart(n) ==
    /\ UNCHANGED <<parserVars, serverVars, appVars>>
    /\ Runnable(n)
    /\ ntodo' = ntodo - 1
    /\ task[n] = "ready"
    /\ IF n \in clients
       THEN /\ task' = [task EXCEPT ![n] = "waiting"]
            /\ call' = [call EXCEPT ![n] = "inflight"]
            /\ calls' = [calls EXCEPT ![n] = @ + 1]
            /\ last_payload' = [last_payload EXCEPT ![n] = Payload(n)]
            /\ timer' = [timer EXCEPT ![n] = IF Bounded(n) THEN "armed" ELSE "off"]
            /\ ready' = Tail(ready)
            /\ results' = results
       ELSE LET tk == [task EXCEPT ![n] = IF Caught("KeyError") THEN "done" ELSE "KeyError"] IN
            /\ task' = tk
            /\ call' = [call EXCEPT ![n] = "nokey"]
            /\ results' = IF Caught("KeyError") THEN OnException(results, n) ELSE results
            /\ ready' = WakeGather(Tail(ready), tk)
            /\ UNCHANGED <<calls, last_payload, timer>>
    /\ UNCHANGED <<clients, remote, pc, geocode_data, completed, response, raisedExc>>

\* Lines 73-80: the task call_optional(n, ...) resumes after its call ended.
OptionalDone(n) ==
    /\ UNCHANGED <<parserVars, serverVars, appVars>>
    /\ Runnable(n)
    /\ ntodo' = ntodo - 1
    /\ task[n] = "waiting"
    /\ LET out == wait_for(n)
           tk == [task EXCEPT ![n] =
                    IF out.kind = "return" \/ Caught(out.exc) THEN "done" ELSE out.exc]
       IN
       /\ results' = IF out.kind = "return"
                     THEN AppendResult(results, n, out.data)
                     ELSE IF Caught(out.exc) THEN OnException(results, n) ELSE results
       /\ task' = tk
       /\ ready' = WakeGather(Tail(ready), tk)
    /\ UNCHANGED <<clients, remote, pc, geocode_data, call, calls, last_payload, timer,
                   completed, response, raisedExc>>

\* Lines 82-87: handle_query resumes after gather and returns.
GatherDone ==
    /\ UNCHANGED <<parserVars, serverVars, appVars>>
    /\ pc = "await_gather"
    /\ Runnable("main")
    /\ ntodo' = ntodo - 1
    /\ ready' = Tail(ready)
    /\ IF \E n \in Optional : task[n] \in Exceptions
       THEN /\ pc' = "raised"
            /\ raisedExc' = task[CHOOSE n \in Optional : task[n] \in Exceptions]
            /\ response' = response
       ELSE /\ pc' = "returned"
            /\ response' = results
            /\ raisedExc' = raisedExc
    /\ UNCHANGED <<clients, remote, results, geocode_data, task, call, calls, last_payload,
                   timer, completed>>

\* ------------------------------------------------------------------------
\* The environment: tool servers and the clock
\* ------------------------------------------------------------------------

\* The call of tool t ends before its timeout: MCPClient.call returns or
\* raises, and the waiting coroutine becomes runnable.
Respond(t) ==
    /\ UNCHANGED <<parserVars, serverVars, appVars>>
    /\ ntodo = 0
    /\ call[t] = "inflight"
    /\ remote[t].kind # "hang"
    /\ call' = [call EXCEPT ![t] =
                    IF MCPClient_call(remote[t]).kind = "return" THEN "returned" ELSE "raised"]
    /\ timer' = [timer EXCEPT ![t] = IF @ = "armed" THEN "cancelled" ELSE @]
    /\ completed' = Append(completed, t)
    /\ ready' = Append(ready, Waiter(t))
    /\ UNCHANGED <<clients, remote, pc, results, geocode_data, task, calls, last_payload,
                   ntodo, response, raisedExc>>

\* The timeout of wait_for expires while call t is still in flight: the call
\* is cancelled and the waiting coroutine gets TimeoutError.
TimerExpire(t) ==
    /\ UNCHANGED <<parserVars, serverVars, appVars>>
    /\ ntodo = 0
    /\ call[t] = "inflight"
    /\ timer[t] = "armed"
    /\ call' = [call EXCEPT ![t] = "expired"]
    /\ timer' = [timer EXCEPT ![t] = "fired"]
    /\ completed' = Append(completed, t)
    /\ ready' = Append(ready, Waiter(t))
    /\ UNCHANGED <<clients, remote, pc, results, geocode_data, task, calls, last_payload,
                   ntodo, response, raisedExc>>

\* The loop starts to run the coroutines that are in the ready queue.
RunOnce ==
    /\ UNCHANGED <<parserVars, serverVars, appVars>>
    /\ ntodo = 0
    /\ ready # <<>>
    /\ ntodo' = Len(ready)
    /\ UNCHANGED <<clients, remote, pc, results, geocode_data, task, call, calls, last_payload,
                   timer, ready, completed, response, raisedExc>>

Next ==
    \/ RunOnce
    \/ HandleQuery
    \/ GeocodingDone
    \/ PoiDone
    \/ \E n \in Optional : OptionalStart(n)
    \/ \E n \in Optional : OptionalDone(n)
    \/ GatherDone
    \/ \E t \in Tools : Respond(t)
    \/ \E t \in Tools : TimerExpire(t)

Spec == Init /\ [][Next]_vars

\* The orchestrator before any query, with an empty client map.
OrchIdle ==
    /\ clients = {}
    /\ remote = [t \in Tools |-> Hang]
    /\ pc = "start"
    /\ results = <<>>
    /\ geocode_data = NoneV
    /\ task = [n \in Optional |-> "none"]
    /\ call = [t \in Tools |-> "idle"]
    /\ calls = [t \in Tools |-> 0]
    /\ timer = [t \in Tools |-> "off"]
    /\ ready = <<"main">>
    /\ ntodo = 0
    /\ completed = <<>>
    /\ response = <<>>
    /\ raisedExc = ""
    /\ last_payload = [t \in Tools |-> NoPayload]

TypeOK ==
    /\ clients \subseteq Tools
    /\ pc \in {"start", "await_geocoding", "await_poi", "await_gather", "returned", "raised"}
    /\ \A t \in Tools : call[t] \in {"idle", "nokey", "inflight", "returned", "raised", "expired"}
    /\ \A t \in Tools : timer[t] \in {"off", "armed", "cancelled", "fired"}
    /\ \A n \in Optional : task[n] \in {"none", "ready", "waiting", "done"} \cup Exceptions
    /\ \A t \in Tools : calls[t] \in Nat
    /\ ntodo \in 0..Len(ready)

\* ------------------------------------------------------------------------
\* RateLimiter.wait (geocoding/server.py lines 62-75, poi_discovery/server.py
\* lines 82-94)
\* ------------------------------------------------------------------------

SleepFor_interval(last, nw) == Interval

\* sleep_for = self._last_call + self._interval - now
SleepFor(last, nw) == last + _interval - nw

\* self._last_call = time.monotonic(): the reading taken by caller p now.
StampedAt(p) == now

Without(q, x) == SelectSeq(q, LAMBDA y : y # x)

\* time.monotonic() advances.
Tick ==
    /\ now < MaxClock
    /\ now' = now + 1
    /\ UNCHANGED <<last_call, lock, waiters, wpc, seen, slept, wake_at, returns>>
    /\ UNCHANGED <<orchVars, parserVars, handlerVars, appVars>>

\* `async with self._lock` on entry: a caller takes the free lock if nobody
\* queues for it, and queues behind the others otherwise.
CallWait(p) ==
    /\ wpc[p] = "idle"
    /\ IF lock = NoCaller /\ waiters = <<>>
       THEN /\ lock' = p
            /\ wpc' = [wpc EXCEPT ![p] = "locked"]
            /\ waiters' = waiters
       ELSE /\ waiters' = Append(waiters, p)
            /\ wpc' = [wpc EXCEPT ![p] = "queued"]
            /\ lock' = lock
    /\ UNCHANGED <<now, last_call, seen, slept, wake_at, returns>>
    /\ UNCHANGED <<orchVars, parserVars, handlerVars, appVars>>

\* The first queued caller gets the lock that was released.
Acquire(p) ==
    /\ wpc[p] = "queued"
    /\ lock = NoCaller
    /\ waiters # <<>> /\ Head(waiters) = p
    /\ lock' = p
    /\ waiters' = Tail(waiters)
    /\ wpc' = [wpc EXCEPT ![p] = "locked"]
    /\ UNCHANGED <<now, last_call, seen, slept, wake_at, returns>>
    /\ UNCHANGED <<orchVars, parserVars, handlerVars, appVars>>

Enter_unlocked(p) ==
    /\ wpc[p] = "locked"
    /\ seen' = [seen EXCEPT ![p] = [now |-> now, last |-> last_call]]
    /\ LET sleep_for == SleepFor(last_call, now) IN
       IF sleep_for > 0
       THEN /\ wpc' = [wpc EXCEPT ![p] = "sleeping"]
            /\ slept' = [slept EXCEPT ![p] = sleep_for]
            /\ wake_at' = [wake_at EXCEPT ![p] = now + sleep_for]
            /\ lock' = NoCaller
       ELSE /\ wpc' = [wpc EXCEPT ![p] = "awake"]
            /\ UNCHANGED <<slept, wake_at, lock>>
    /\ UNCHANGED <<now, last_call, waiters, returns>>
    /\ UNCHANGED <<orchVars, parserVars, handlerVars, appVars>>

\* Lines 71-74: the lock holder reads the clock and the last-call timestamp
\* and starts to sleep for the deficit if that is positive.
Enter(p) ==
    /\ wpc[p] = "locked"
    /\ seen' = [seen EXCEPT ![p] = [now |-> now, last |-> last_call]]
    /\ LET sleep_for == SleepFor(last_call, now) IN
       IF sleep_for > 0
       THEN /\ wpc' = [wpc EXCEPT ![p] = "sleeping"]
            /\ slept' = [slept EXCEPT ![p] = sleep_for]
            /\ wake_at' = [wake_at EXCEPT ![p] = now + sleep_for]
       ELSE /\ wpc' = [wpc EXCEPT ![p] = "awake"]
            /\ UNCHANGED <<slept, wake_at>>
    /\ UNCHANGED <<now, last_call, lock, waiters, returns>>
    /\ UNCHANGED <<orchVars, parserVars, handlerVars, appVars>>

Stamp_holding(p) ==
    /\ \/ wpc[p] = "awake"
       \/ wpc[p] = "sleeping" /\ now >= wake_at[p]
    /\ last_call' = StampedAt(p)
    /\ lock' = IF wpc[p] = "sleeping" THEN lock ELSE NoCaller
    /\ wpc' = [wpc EXCEPT ![p] = "done"]
    /\ returns' = Append(returns, now)
    /\ UNCHANGED <<now, waiters, seen, slept, wake_at>>
    /\ UNCHANGED <<orchVars, parserVars, handlerVars, appVars>>

\* Line 75 and the exit of `async with`: after its sleep, if any, the caller
\* stores the current clock reading, releases the lock and returns.
Stamp(p) ==
    /\ \/ wpc[p] = "awake"
       \/ wpc[p] = "sleeping" /\ now >= wake_at[p]
    /\ last_call' = StampedAt(p)
    /\ lock' = NoCaller
    /\ wpc' = [wpc EXCEPT ![p] = "done"]
    /\ returns' = Append(returns, now)
    /\ UNCHANGED <<now, waiters, seen, slept, wake_at>>
    /\ UNCHANGED <<orchVars, parserVars, handlerVars, appVars>>

\* The coroutine of caller p is cancelled while it waits for the lock or
\* sleeps: `async with` releases the lock it holds, the timestamp is not
\* written.
Cancel(p) ==
    /\ wpc[p] \in {"queued", "sleeping"}
    /\ wpc' = [wpc EXCEPT ![p] = "cancelled"]
    /\ waiters' = Without(waiters, p)
    /\ lock' = IF lock = p THEN NoCaller ELSE lock
    /\ UNCHANGED <<now, last_call, seen, slept, wake_at, returns>>
    /\ UNCHANGED <<orchVars, parserVars, handlerVars, appVars>>

LimiterInit ==
    /\ now \in 0..MaxStart
    /\ LimiterNew
    /\ HandlerIdle
    /\ ParserIdle
    /\ AppIdle
    /\ OrchIdle

LimiterNext ==
    \/ Tick
    \/ \E p \in Callers : CallWait(p)
    \/ \E p \in Callers : Acquire(p)
    \/ \E p \in Callers : Enter(p)
    \/ \E p \in Callers : Stamp(p)
    \/ \E p \in Callers : Cancel(p)

LimiterSpec == LimiterInit /\ [][LimiterNext]_vars

\* time.monotonic() advances beyond MaxClock while a caller sleeps: the
\* clock is held at the bound only when nobody waits for it.
TickAsleep ==
    /\ now >= MaxClock
    /\ \E p \in Callers : wpc[p] = "sleeping" /\ now < wake_at[p]
    /\ now' = now + 1
    /\ UNCHANGED <<last_call, lock, waiters, wpc, seen, slept, wake_at, returns>>
    /\ UNCHANGED <<orchVars, parserVars, handlerVars, appVars>>

\* The limiter of a server that has been up for a while: the clock stands
\* at MaxClock and goes on only for the callers that sleep.
FairLimiterInit ==
    /\ now = MaxClock
    /\ LimiterNew
    /\ HandlerIdle
    /\ ParserIdle
    /\ AppIdle
    /\ OrchIdle

FairLimiterNext ==
    \/ TickAsleep
    \/ \E p \in Callers : CallWait(p)
    \/ \E p \in Callers : Acquire(p)
    \/ \E p \in Callers : Enter(p)
    \/ \E p \in Callers : Stamp(p)
    \/ \E p \in Callers : Cancel(p)

\* The limiter under fair scheduling: time passes, and the event loop runs
\* every coroutine that can take the lock, go on with it, or wake from its
\* sleep.  Callers need not call, and cancellation need not happen.
FairLimiterSpec ==
    /\ FairLimiterInit
    /\ [][FairLimiterNext]_vars
    /\ WF_vars(TickAsleep)
    /\ \A p \in Callers :
          WF_vars(Acquire(p)) /\ WF_vars(Enter(p)) /\ WF_vars(Stamp(p))

LimiterTypeOK ==
    /\ now \in 0..MaxClock
    /\ last_call \in 0..MaxClock
    /\ lock \in Callers \cup {NoCaller}
    /\ \A p \in Callers : wpc[p] \in {"idle", "queued", "locked", "sleeping", "awake", "done", "cancelled"}
    /\ \A p \in Callers : (wpc[p] = "queued") <=> (p \in Range(waiters))

\* ------------------------------------------------------------------------
\* Values exchanged with the upstream APIs
\* ------------------------------------------------------------------------

\* An optional value: Absent is Python's None (a missing key read with
\* dict.get, or a JSON null), Some(v) is the value v.
Absent == <<>>

Some(v) == <<v>>

\* Python's `a or b` on optional numbers: None and 0 are both falsy.
PyOr(a, b) == IF a # Absent /\ a[1] # 0 THEN a ELSE b

ToolRaises(e, m) == [kind |-> "raise", exc |-> e, msg |-> m, value |-> <<>>]

ToolReturns(v) == [kind |-> "return", exc |-> "", msg |-> "", value |-> v]

\* The upstream request fails in the transport, or is answered with an HTTP
\* error status, or with a 200 whose body is not JSON, or with a JSON body.
TimesOut == [kind |-> "timeout", body |-> <<>>]

NoConnection == [kind |-> "connect", body |-> <<>>]

ErrorStatus == [kind |-> "status", body |-> <<>>]

InvalidJson == [kind |-> "invalid_json", body |-> <<>>]

JsonBody(b) == [kind |-> "json", body |-> b]

\* The httpx exception that the fetch, or raise_for_status() on its response,
\* raises; "" if the response has a success status.
Fetched(up) ==
    CASE up.kind = "timeout" -> "TimeoutException"
      [] up.kind = "connect" -> "ConnectError"
      [] up.kind = "status" -> "HTTPStatusError"
      [] OTHER -> ""

\* httpx's exception classes: all three derive from httpx.HTTPError, and only
\* HTTPStatusError carries the attribute `response`.
IsHTTPError(e) == e \in {"TimeoutException", "ConnectError", "HTTPStatusError"}

IsTimeoutException(e) == e = "TimeoutException"

HasResponse(e) == e = "HTTPStatusError"

\* ------------------------------------------------------------------------
\* POI discovery: search_pois (poi_discovery/server.py)
\* ------------------------------------------------------------------------

\* results[:20]
TopN == 20

\* _haversine on the grid of whole degrees 0..2, in metres rounded to the
\* nearest metre: HaversineTable[lat1 + 1][lon1 + 1][lat2 + 1][lon2 + 1].
HaversineTable ==
<<
   <<
      <<<<0, 111195, 222390>>, <<111195, 157249, 248629>>, <<222390, 248629, 314475>>>>,
      <<<<111195, 0, 111195>>, <<157249, 111195, 157249>>, <<248629, 222390, 248629>>>>,
      <<<<222390, 111195, 0>>, <<248629, 157249, 111195>>, <<314475, 248629, 222390>>>> >>,
   <<
      <<<<111195, 157249, 248629>>, <<0, 111178, 222356>>, <<111195, 157225, 248569>>>>,
      <<<<157249, 111195, 157249>>, <<111178, 0, 111178>>, <<157225, 111195, 157225>>>>,
      <<<<248629, 157249, 111195>>, <<222356, 111178, 0>>, <<248569, 157225, 111195>>>> >>,
   <<
      <<<<222390, 248629, 314475>>, <<111195, 157225, 248569>>, <<0, 111127, 222254>>>>,
      <<<<248629, 222390, 248629>>, <<157225, 111195, 157225>>, <<111127, 0, 111127>>>>,
      <<<<314475, 248629, 222390>>, <<248569, 157225, 111195>>, <<222254, 111127, 0>>>> >> >>

_haversine_signed(lat1, lon1, lat2, lon2) ==
    IF lat2 < lat1 THEN 0 - HaversineTable[lat1 + 1][lon1 + 1][lat2 + 1][lon2 + 1]
                   ELSE HaversineTable[lat1 + 1][lon1 + 1][lat2 + 1][lon2 + 1]

_haversine(lat1, lon1, lat2, lon2) == HaversineTable[lat1 + 1][lon1 + 1][lat2 + 1][lon2 + 1]

\* An element of an Overpass reply (`out center`): a node carries lat and lon,
\* a way or relation carries them under "center"; tags may hold an importance
\* (in tenths) and the name.
Node(p, imp) ==
    [json |-> "object", type |-> Some("node"), lat |-> Some(p[1]), lon |-> Some(p[2]),
     center |-> Absent, importance |-> imp, name |-> Absent]

Way(p, imp) ==
    [json |-> "object", type |-> Some("way"), lat |-> Absent, lon |-> Absent,
     center |-> Some([lat |-> Some(p[1]), lon |-> Some(p[2])]),
     importance |-> imp, name |-> Absent]

\* A relation that came without a centre.
Bare ==
    [json |-> "object", type |-> Some("relation"), lat |-> Absent, lon |-> Absent,
     center |-> Absent, importance |-> Absent, name |-> Absent]

\* A member of "elements" that is not a JSON object.
NotAnObject ==
    [json |-> "string", type |-> Absent, lat |-> Absent, lon |-> Absent,
     center |-> Absent, importance |-> Absent, name |-> Absent]

\* The elements that replies are made of.  Some lie on the equator or on the
\* prime meridian.
ElementKinds ==
    { Node(<<1, 1>>, Some(5)), Node(<<1, 2>>, Some(9)), Node(<<0, 1>>, Absent),
      Node(<<2, 0>>, Absent), Way(<<2, 2>>, Some(9)), Way(<<1, 0>>, Some(5)), Bare }

\* The search centres of the requests.
Centres == {<<0, 0>>, <<1, 1>>}

\* A reply lists a base sequence of at most MaxBase elements up to MaxRep
\* times over, each element under its own name (its position).
Bases == UNION {[1..n -> ElementKinds] : n \in 0..MaxBase}

Repeated(base, k) ==
    [i \in 1..(k * Len(base)) |->
        [base[((i - 1) % Len(base)) + 1] EXCEPT !.name = Some(i)]]

ElementLists == {Repeated(base, k) : base \in Bases, k \in 1..MaxRep}

Array(items) == [json |-> "array", items |-> items]

Null == [json |-> "null", items |-> <<>>]

\* A JSON object with the member "elements", and one without it.
Reply(elements) == [json |-> "object", elements |-> Some(elements)]

ReplyWithoutElements == [json |-> "object", elements |-> Absent]

\* A JSON body that is a list.
ListBody == [json |-> "array", elements |-> Absent]

PoiUpstreams ==
    {TimesOut, NoConnection, ErrorStatus, InvalidJson}
    \cup {JsonBody(Reply(Array(els))) : els \in ElementLists}
    \cup {JsonBody(ReplyWithoutElements), JsonBody(ListBody), JsonBody(Reply(Null)),
          JsonBody(Reply(Array(<<NotAnObject>>)))}

\* POISearchRequest
PoiRequests ==
    {[latitude |-> c[1], longitude |-> c[2], category |-> "tourism"] : c \in Centres}

\* lat = el.get("lat") or el.get("center", {}).get("lat"), and the same for lon
Lat(el) == PyOr(el.lat, IF el.center = Absent THEN Absent ELSE el.center[1].lat)

Lon(el) == PyOr(el.lon, IF el.center = Absent THEN Absent ELSE el.center[1].lon)

\* if lat is None or lon is None: continue
Skipped(el) == Lat(el) = Absent \/ Lon(el) = Absent

\* The POIResult appended for an element that is not skipped.
POIResult(req, el) ==
    [name |-> el.name,
     lat |-> Lat(el)[1],
     lon |-> Lon(el)[1],
     type |-> IF el.type = Absent THEN "node" ELSE el.type[1],
     distance |-> _haversine(req.latitude, req.longitude, Lat(el)[1], Lon(el)[1])]

\* The list `results` after the loop over the elements.
Collected(req, els) ==
    LET kept == SelectSeq(els, LAMBDA el : ~Skipped(el))
    IN  [i \in 1..Len(kept) |-> POIResult(req, kept[i])]

\* key=lambda r: r.distance
SortKey(r) == r.distance

Insert_append(sorted, r) == Append(sorted, r)

\* list.sort is stable: an entry goes behind the entries whose key is not
\* greater than its own.
Insert(sorted, r) ==
    LET k == Cardinality({i \in 1..Len(sorted) : SortKey(sorted[i]) <= SortKey(r)})
    IN  SubSeq(sorted, 1, k) \o <<r>> \o SubSeq(sorted, k + 1, Len(sorted))

RECURSIVE Sorted(_)
\* results.sort(key=...)
Sorted(s) ==
    IF s = <<>> THEN <<>>
    ELSE Insert(Sorted(SubSeq(s, 1, Len(s) - 1)), s[Len(s)])

Min(a, b) == IF a <= b THEN a ELSE b

\* results[:20]
Top(s) == SubSeq(s, 1, Min(Len(s), TopN))

\* search_pois, after the rate limiter has let the request through.
search_pois(req, up) ==
    LET e == Fetched(up) IN
    IF e # ""
    THEN IF IsHTTPError(e) THEN ToolRaises("RuntimeError", "POI search failed")
                           ELSE ToolRaises(e, "")
    ELSE IF up.kind = "invalid_json"
    THEN ToolRaises("RuntimeError", "Invalid response from Overpass API")
    ELSE LET data == up.body IN
         IF data.json # "object"
         THEN ToolRaises("AttributeError", "")      \* data.get on a list
         ELSE LET elements == IF data.elements = Absent THEN Array(<<>>)
                                                        ELSE data.elements[1]
              IN  IF elements.json # "array"
                  THEN ToolRaises("TypeError", "")  \* for el in None
                  ELSE IF \E i \in 1..Len(elements.items) :
                              elements.items[i].json # "object"
                  THEN ToolRaises("AttributeError", "")   \* el.get on a string
                  ELSE ToolReturns(Top(Sorted(Collected(req, elements.items))))

\* ------------------------------------------------------------------------
\* Geocoding: _geocode_location_impl (geocoding/server.py)
\* ------------------------------------------------------------------------

\* float(x) for the values a Nominatim item holds under "lat" and "lon":
\* a numeric string is converted, any other string is a ValueError and a
\* JSON null a TypeError.
FloatOf(x) ==
    CASE x = "1.0" -> [exc |-> "", val |-> 1]
      [] x = "2.0" -> [exc |-> "", val |-> 2]
      [] x = "null" -> [exc |-> "TypeError", val |-> 0]
      [] OTHER -> [exc |-> "ValueError", val |-> 0]

CoordStrings == {"1.0", "2.0", "abc", "null"}

\* An item of a Nominatim reply; any of its members may be missing.
Item(lat, lon, name) ==
    [json |-> "object", lat |-> lat, lon |-> lon, display_name |-> name]

\* A member of the reply that is not a JSON object.
NotAnItem == [json |-> "string", lat |-> Absent, lon |-> Absent, display_name |-> Absent]

Items ==
    {Item(lat, lon, name) :
        lat \in {Absent} \cup {Some(x) : x \in CoordStrings},
        lon \in {Absent} \cup {Some(x) : x \in CoordStrings},
        name \in {Absent, Some("Test")}}
    \cup {NotAnItem}

\* A JSON object as the body ({"error": ...}), and the empty object.
ErrorObject == [json |-> "object", items |-> <<"error">>]

EmptyObject == [json |-> "object", items |-> <<>>]

GeoUpstreams ==
    {TimesOut, NoConnection, ErrorStatus, InvalidJson}
    \cup {JsonBody(Array(<<>>)), JsonBody(EmptyObject), JsonBody(ErrorObject)}
    \cup {JsonBody(Array(<<it>>)) : it \in Items}
    \cup {JsonBody(Array(<<it, Item(Some("2.0"), Some("1.0"), Some("Test"))>>)) : it \in Items}

\* GeocodeRequest
GeoRequests == {[location_name |-> n] : n \in {"Rome", "Unknown"}}

\* The exception raised inside the try block of lines 224-229, "" if none:
\* item["lat"], float(...), item["lon"], float(...), item["display_name"].
ItemError(item) ==
    IF item.json # "object" THEN "TypeError"
    ELSE IF item.lat = Absent THEN "KeyError"
    ELSE IF FloatOf(item.lat[1]).exc # "" THEN FloatOf(item.lat[1]).exc
    ELSE IF item.lon = Absent THEN "KeyError"
    ELSE IF FloatOf(item.lon[1]).exc # "" THEN FloatOf(item.lon[1]).exc
    ELSE IF item.display_name = Absent THEN "KeyError"
    ELSE ""

\* except (KeyError, TypeError, ValueError)
CaughtItemErrors == {"KeyError", "TypeError", "ValueError"}

\* _geocode_location_impl, after the rate limiter has let the request through.
geocode_location(req, up) ==
    LET e == Fetched(up) IN
    IF e # ""
    THEN IF IsTimeoutException(e)
         THEN ToolRaises("RuntimeError", "Geocoding request timed out")
         ELSE IF IsHTTPError(e)
         THEN IF HasResponse(e)
              THEN ToolRaises("RuntimeError", "HTTP error")
              ELSE ToolRaises("AttributeError", "")     \* exc.response
         ELSE ToolRaises(e, "")
    ELSE IF up.kind = "invalid_json"
    THEN ToolRaises("RuntimeError", "Invalid response from geocoding API")
    ELSE LET data == up.body IN
         IF data.items = <<>>
         THEN ToolRaises("RuntimeError", "Location not found")
         ELSE IF data.json # "array"
         THEN ToolRaises("KeyError", "")                \* data[0] on a dict
         ELSE LET item == data.items[1] IN
              IF ItemError(item) \in CaughtItemErrors
              THEN ToolRaises("RuntimeError", "Unexpected response structure")
              ELSE IF ItemError(item) # ""
              THEN ToolRaises(ItemError(item), "")
              ELSE ToolReturns([lat |-> FloatOf(item.lat[1]).val,
                                lon |-> FloatOf(item.lon[1]).val,
                                display_name |-> item.display_name[1]])

\* ------------------------------------------------------------------------
\* One tool invocation on the geocoding or the POI server
\* ------------------------------------------------------------------------

\* The server has been up for longer than the limiter's interval, so the
\* clock is past the first interval when the request arrives.
ServerInit ==
    /\ tool \in {"geocoding", "poi"}
    /\ IF tool = "geocoding"
       THEN request \in GeoRequests /\ upstream \in GeoUpstreams
       ELSE request \in PoiRequests /\ upstream \in PoiUpstreams
    /\ outcome = NotRun
    /\ now = MaxClock
    /\ LimiterNew
    /\ ParserIdle
    /\ AppIdle
    /\ OrchIdle

\* geocode_location, from the return of rate_limiter.wait() to its end.
GeocodeLocation ==
    /\ tool = "geocoding"
    /\ wpc[Handler] = "done"
    /\ outcome = NotRun
    /\ outcome' = geocode_location(request, upstream)
    /\ UNCHANGED <<tool, request, upstream>>
    /\ UNCHANGED <<orchVars, parserVars, limiterVars, appVars>>

\* search_pois, from the return of overpass_rate_limiter.wait() to its end.
SearchPois ==
    /\ tool = "poi"
    /\ wpc[Handler] = "done"
    /\ outcome = NotRun
    /\ outcome' = search_pois(request, upstream)
    /\ UNCHANGED <<tool, request, upstream>>
    /\ UNCHANGED <<orchVars, parserVars, limiterVars, appVars>>

ServerNext ==
    \/ CallWait(Handler)
    \/ Enter(Handler)
    \/ Stamp(Handler)
    \/ GeocodeLocation
    \/ SearchPois

ServerSpec == ServerInit /\ [][ServerNext]_vars

ServerTypeOK ==
    /\ tool \in {"geocoding", "poi"}
    /\ outcome.kind \in {"none", "return", "raise"}
    /\ outcome.kind # "none" => wpc[Handler] = "done"
    /\ (tool = "poi" /\ outcome.kind = "return") => Len(outcome.value) <= TopN

\* ------------------------------------------------------------------------
\* Trivia: get_trivia (trivia/server.py)
\* ------------------------------------------------------------------------

\* Reliability scores are in tenths.
SOURCE_RELIABILITY == [wikipedia |-> 9, britannica |-> 8, duckduckgo |-> 6]

RELIABILITY_THRESHOLD == 6

\* SOURCE_RELIABILITY.get(..., 0.5)
DefaultReliability == 5

TRAVEL_KEYWORDS ==
    {"travel", "tourist", "tourism", "visit", "destination",
     "city", "country", "landmark", "museum", "beach", "mountain",
     "attraction", "monument", "historic", "culture", "architecture",
     "famous", "popular", "location", "site", "built", "constructed"}

\* str.lower() on the words and names that occur.
Lower(w) ==
    CASE w = "Eiffel" -> "eiffel"
      [] w = "Paris" -> "paris"
      [] w = "Museum" -> "museum"
      [] w = "Wikipedia" -> "wikipedia"
      [] w = "WIKIPEDIA" -> "wikipedia"
      [] w = "Britannica" -> "britannica"
      [] w = "DuckDuckGo" -> "duckduckgo"
      [] w = "RandomBlog" -> "randomblog"
      [] OTHER -> w

\* A text is given by the set of words it contains, the empty string by the
\* empty set; a topic or context is given by the sequence of its words.
\* text.lower()
LowerText(text) == {Lower(w) : w \in text}

\* s.lower().split()
LowerWords(s) == [i \in 1..Len(s) |-> Lower(s[i])]

\* The words that the candidate texts are made of.
TextWords == {"Eiffel", "Paris", "museum", "steps"}

Texts == SUBSET TextWords

\* The texts of the related topics.
RelatedTexts == {{"Eiffel"}, {"Eiffel", "Paris"}, {"steps"}}

SourceNames == {"Wikipedia", "WIKIPEDIA", "britannica", "DuckDuckGo", "RandomBlog"}

\* A related topic with a text, and one that groups further topics.
Topic(text) == [Text |-> Some(text), FirstURL |-> Absent, Topics |-> <<>>]

Group(subs) == [Text |-> Absent, FirstURL |-> Absent, Topics |-> subs]

RelatedItems ==
    {Topic(t) : t \in RelatedTexts} \cup {Group(<<Topic({"Eiffel", "museum"})>>)}

RelatedLists == UNION {[1..n -> RelatedItems] : n \in 0..MaxRelated}

\* The JSON object DuckDuckGo answers with.
Answer(text, source, related) ==
    [json |-> "object", AbstractText |-> text, AbstractSource |-> source,
     AbstractURL |-> IF text = Absent THEN Absent ELSE Some("https://abstract"),
     RelatedTopics |-> related]

Answers ==
    {Answer(text, source, related) :
        text \in {Absent} \cup {Some(t) : t \in Texts},
        source \in {Absent} \cup {Some(n) : n \in SourceNames},
        related \in RelatedLists}

\* Besides the answers: the failures of the request, a body that is not
\* JSON, and JSON bodies that are no object.
TriviaUpstreams ==
    {TimesOut, NoConnection, ErrorStatus, InvalidJson}
    \cup {JsonBody(Array(<<>>)), JsonBody(Null)}
    \cup {JsonBody(a) : a \in Answers}

\* TriviaRequest: the topic, and the context, which may be None or empty.
TriviaRequests ==
    {[topic |-> t, context |-> c] :
        t \in {<<"Eiffel">>, <<"Eiffel", "Museum">>},
        c \in {Absent, Some(<<>>), Some(<<"Paris">>)}}

\* score_source
score_source(source) ==
    IF Lower(source) \in DOMAIN SOURCE_RELIABILITY
    THEN SOURCE_RELIABILITY[Lower(source)]
    ELSE DefaultReliability

\* if request.context: a context that is neither None nor empty
HasContext(req) == req.context # Absent /\ req.context[1] # <<>>

\* any(word in text_lower for word in words)
AnyIn(words, text) == \E w \in words : w \in LowerText(text)

matches_context_anyContext(text, req) ==
    AnyIn(TRAVEL_KEYWORDS \cup Range(LowerWords(req.topic)), text)

\* matches_context
matches_context(text, req) ==
    IF HasContext(req) /\ ~AnyIn(Range(LowerWords(req.context[1])), text)
    THEN FALSE
    ELSE AnyIn(TRAVEL_KEYWORDS \cup Range(LowerWords(req.topic)), text)

\* A candidate (text, source, url), and the triple ("", "", "").
Candidate(text, source, url) == [text |-> text, source |-> source, url |-> url]

NoFact == Candidate({}, "", "")

\* dict.get(key, default) for a URL
UrlOr(v) == IF v = Absent THEN "" ELSE v[1]

\* The candidates of one related topic (lines 181-187).
RECURSIVE FromTopics(_)
FromTopics(items) ==
    IF items = <<>> THEN <<>>
    ELSE LET item == Head(items)
             own == IF item.Text # Absent
                    THEN <<Candidate(item.Text[1], "DuckDuckGo", UrlOr(item.FirstURL))>>
                    ELSE FromTopics(item.Topics)
         IN  own \o FromTopics(Tail(items))

\* The list `candidates` of extract_fact (lines 170-187).
CandidatesOf(data) ==
    (IF data.AbstractText # Absent /\ data.AbstractText[1] # {}
     THEN <<Candidate(data.AbstractText[1],
                      IF data.AbstractSource = Absent THEN "DuckDuckGo"
                                                      ELSE data.AbstractSource[1],
                      UrlOr(data.AbstractURL))>>
     ELSE <<>>)
    \o FromTopics(data.RelatedTopics)

\* The first candidate that satisfies P, NoFact if there is none.
FirstThat(cands, P(_)) ==
    LET hits == SelectSeq(cands, P)
    IN  IF hits = <<>> THEN NoFact ELSE Head(hits)

_extract_fact_strict_none(cands, req) == NoFact

\* _extract_fact_strict
_extract_fact_strict(cands, req) ==
    FirstThat(cands, LAMBDA c : matches_context(c.text, req))

\* _extract_fact_relaxed
_extract_fact_relaxed(cands, req) ==
    LET topic_words == Range(LowerWords(req.topic))
        first_pass ==
            FirstThat(cands,
                LAMBDA c : /\ AnyIn(topic_words, c.text)
                           /\ HasContext(req) =>
                                 AnyIn(Range(LowerWords(req.context[1])), c.text))
    IN  IF first_pass # NoFact
        THEN first_pass
        ELSE FirstThat(cands, LAMBDA c : AnyIn(topic_words, c.text))

\* extract_fact
extract_fact(data, req) ==
    LET strict_result == _extract_fact_strict(CandidatesOf(data), req)
    IN  IF strict_result.text # {}
        THEN strict_result
        ELSE _extract_fact_relaxed(CandidatesOf(data), req)

Accepts_below(reliability) == reliability >= RELIABILITY_THRESHOLD - 1

\* if reliability < RELIABILITY_THRESHOLD: raise
Accepts(reliability) == ~(reliability < RELIABILITY_THRESHOLD)

\* _get_trivia_impl, after the rate limiter has let the request through.
get_trivia(req, up) ==
    LET e == Fetched(up) IN
    IF e # ""
    THEN IF IsTimeoutException(e)
         THEN ToolRaises("RuntimeError", "DuckDuckGo request timed out")
         ELSE IF IsHTTPError(e)
         THEN ToolRaises("RuntimeError", "DuckDuckGo API error")
         ELSE ToolRaises(e, "")
    ELSE IF up.kind = "invalid_json"
    THEN ToolRaises("ValueError", "")
    ELSE IF up.body.json # "object"
    THEN ToolRaises("AttributeError", "")
    ELSE LET fact == extract_fact(up.body, req) IN
         IF fact.text = {}
         THEN ToolRaises("RuntimeError", "No travel-relevant trivia found")
         ELSE IF ~Accepts(score_source(fact.source))
         THEN ToolRaises("RuntimeError", "Low reliability source")
         ELSE ToolReturns([trivia |-> fact.text,
                           source |-> fact.source,
                           url |-> IF fact.url = "" THEN Absent ELSE Some(fact.url),
                           reliability |-> score_source(fact.source)])

TriviaInit ==
    /\ tool = "trivia"
    /\ request \in TriviaRequests
    /\ upstream \in TriviaUpstreams
    /\ outcome = NotRun
    /\ now = MaxClock
    /\ LimiterNew
    /\ ParserIdle
    /\ AppIdle
    /\ OrchIdle

\* get_trivia, from the return of rate_limiter.wait() to its end.
GetTrivia ==
    /\ tool = "trivia"
    /\ wpc[Handler] = "done"
    /\ outcome = NotRun
    /\ outcome' = get_trivia(request, upstream)
    /\ UNCHANGED <<tool, request, upstream>>
    /\ UNCHANGED <<orchVars, parserVars, limiterVars, appVars>>

TriviaNext ==
    \/ CallWait(Handler)
    \/ Enter(Handler)
    \/ Stamp(Handler)
    \/ GetTrivia

TriviaSpec == TriviaInit /\ [][TriviaNext]_vars

TriviaTypeOK ==
    /\ tool = "trivia"
    /\ outcome.kind \in {"none", "return", "raise"}
    /\ outcome.kind # "none" => wpc[Handler] = "done"

\* ------------------------------------------------------------------------
\* get_wikipedia_info (app/mcp_servers/wikipedia/server.py)
\* ------------------------------------------------------------------------

\* summary = extract[:200] + "..." if len(extract) > 200 else extract
SummaryChars == 200

\* The JSON object of a page summary; an extract is modelled by its length,
\* a title by its words, a URL by its base and the words of its path.
WikiUrl(words) == [base |-> "https://en.wikipedia.org/wiki/", path |-> words]

WikiPage(extract, page, pageid, title) ==
    [json |-> "object", extract |-> extract, page |-> page, pageid |-> pageid,
     title |-> title]

FullPage == WikiPage(Some(90), Some(WikiUrl(<<"Louvre">>)), Some(9202), Some(<<"Louvre">>))

LongPage == WikiPage(Some(250), Absent, Absent, Some(<<"Louvre", "Museum">>))

UntitledPage == WikiPage(Some(90), Absent, Absent, Absent)

NoExtractPage == WikiPage(Absent, Absent, Absent, Some(<<"Louvre">>))

\* The replies to a summary request.
SummaryReplies ==
    {TimesOut, NoConnection, ErrorStatus, InvalidJson}
    \cup {JsonBody(FullPage), JsonBody(LongPage), JsonBody(UntitledPage),
          JsonBody(NoExtractPage), JsonBody(Null)}

\* The JSON array of an opensearch reply: the query, then the titles found.
OpenSearch(titles) == Array(<<<<"query">>, titles>>)

\* The replies to the opensearch request, with arrays of less than two
\* items, an object and null among them.
OpensearchReplies ==
    {TimesOut, NoConnection, ErrorStatus, InvalidJson}
    \cup {JsonBody(OpenSearch(<<>>)), JsonBody(OpenSearch(<<"Louvre">>)),
          JsonBody(Array(<<>>)), JsonBody(EmptyObject), JsonBody(Null)}

\* WikipediaRequest: location_context may be None or empty.
WikiRequests ==
    {[poi_name |-> <<"Louvre">>, location_context |-> c] :
        c \in {Absent, Some(<<>>), Some(<<"Paris">>)}}

\* response.status_code == 200
Ok200(reply) == reply.kind \in {"json", "invalid_json"}

\* if opensearch_data[1]: the reply is an array whose second item is not
\* empty.
HasResults(reply) ==
    /\ reply.kind = "json"
    /\ reply.body.json = "array"
    /\ Len(reply.body.items) >= 2
    /\ reply.body.items[2] # <<>>

\* search_wikipedia: the upstream request it issues after the requests of
\* `log`, "" if it issues no more ("direct": the summary of the full query,
\* "plain": the summary of the POI name alone, "opensearch", "titled": the
\* summary of the title found).
NextRequest(req, log) ==
    IF log = <<>> THEN "direct"
    ELSE LET last == log[Len(log)] IN
         CASE last.req = "direct" ->
                  IF Ok200(last.reply) THEN ""
                  ELSE IF req.location_context # Absent /\ req.location_context[1] # <<>>
                  THEN "plain"
                  ELSE "opensearch"
           [] last.req = "plain" ->
                  IF Ok200(last.reply) THEN "" ELSE "opensearch"
           [] last.req = "opensearch" ->
                  IF HasResults(last.reply) THEN "titled" ELSE ""
           [] OTHER -> ""

\* The replies the server can get to its next request.
RepliesTo(kind) == IF kind = "opensearch" THEN OpensearchReplies ELSE SummaryReplies

\* search_wikipedia, once it has issued its last request: what it returns or
\* raises.  An httpx.HTTPError of any request is swallowed; a ValueError of
\* response.json() and an error of opensearch_data[1] are not.
search_wikipedia(req, log) ==
    LET last == log[Len(log)]
        reply == last.reply
        NotFound == ToolRaises("RuntimeError", "No Wikipedia article found")
    IN  IF reply.kind = "invalid_json"
        THEN ToolRaises("ValueError", "")
        ELSE IF reply.kind # "json"
        THEN NotFound
        ELSE IF last.req # "opensearch"
        THEN ToolReturns(reply.body)
        ELSE CASE reply.body.json = "null" -> ToolRaises("TypeError", "")
               [] reply.body.json = "object" -> ToolRaises("KeyError", "")
               [] Len(reply.body.items) < 2 -> ToolRaises("IndexError", "")
               [] OTHER -> NotFound

\* _get_wikipedia_info_impl, after the rate limiter has let the call through
\* and search_wikipedia has ended.
get_wikipedia_info(req, log) ==
    LET found == search_wikipedia(req, log)
        data == found.value
    IN  IF found.kind = "raise"
        THEN IF found.exc \in {"ValueError", "KeyError"}
             THEN ToolRaises("RuntimeError", "Invalid response from Wikipedia API")
             ELSE found
        ELSE IF data.json = "null"
        THEN ToolRaises("TypeError", "")
        ELSE IF data.extract = Absent
        THEN ToolRaises("RuntimeError", "No Wikipedia article found")
        ELSE LET title == IF data.title = Absent THEN req.poi_name ELSE data.title[1]
                 chars == data.extract[1]
             IN  ToolReturns(
                     [summary |-> IF chars > SummaryChars
                                  THEN [chars |-> SummaryChars, ellipsis |-> TRUE]
                                  ELSE [chars |-> chars, ellipsis |-> FALSE],
                      extract |-> chars,
                      url |-> IF data.page = Absent THEN WikiUrl(title) ELSE data.page[1],
                      page_id |-> data.pageid,
                      title |-> title])

WikiInit ==
    /\ tool = "wikipedia"
    /\ request \in WikiRequests
    /\ upstream = <<>>
    /\ outcome = NotRun
    /\ now \in 0..MaxStart
    /\ LimiterNew
    /\ ParserIdle
    /\ AppIdle
    /\ OrchIdle

\* One `await client.get(...)` of search_wikipedia with the reply r, and the
\* code that runs from its return to the next request or to the end of the
\* tool.
WikiRequest(r) ==
    /\ tool = "wikipedia"
    /\ wpc[Handler] = "done"
    /\ outcome = NotRun
    /\ r \in RepliesTo(NextRequest(request, upstream))
    /\ LET log == Append(upstream,
                         [req |-> NextRequest(request, upstream), at |-> now, reply |-> r])
       IN  /\ upstream' = log
           /\ outcome' = IF NextRequest(request, log) = ""
                         THEN get_wikipedia_info(request, log)
                         ELSE NotRun
    /\ UNCHANGED <<tool, request>>
    /\ UNCHANGED <<orchVars, parserVars, limiterVars, appVars>>

WikiNext ==
    \/ Tick
    \/ CallWait(Handler)
    \/ Enter(Handler)
    \/ Stamp(Handler)
    \/ \E r \in SummaryReplies \cup OpensearchReplies : WikiRequest(r)

WikiSpec == WikiInit /\ [][WikiNext]_vars

\* The two enrichment servers, each running one call of its tool.
EnrichInit == TriviaInit \/ WikiInit

EnrichNext == TriviaNext \/ WikiNext

EnrichSpec == EnrichInit /\ [][EnrichNext]_vars

\* ------------------------------------------------------------------------
\* parse_user_query (app/agent/query_parser.py)
\* ------------------------------------------------------------------------

CATEGORIES == <<"tourism", "historic", "restaurant", "entertainment", "shopping">>

\* JSON values of the members of the model's reply.
JString(s) == [t |-> "string", s |-> s]

JNull == [t |-> "null", s |-> ""]

\* A JSON number, s being its decimal text.
JNumber(s) == [t |-> "number", s |-> s]

\* str(v) of a value that json.loads produced: a string is itself, None is
\* "None", a number is its decimal text.
Str(v) == IF v.t = "null" THEN "None" ELSE v.s

\* str.strip() on the strings that occur.
Strip(s) ==
    CASE s = "  " -> ""
      [] s = " Rome " -> "Rome"
      [] s = " historic " -> "historic"
      [] OTHER -> s

\* The model returns no choice at all.
NoChoices == [kind |-> "no_choice", content |-> <<>>]

\* The model returns a message with the given content.
Message(c) == [kind |-> "message", content |-> c]

\* Contents: None, the empty string, text that is not JSON, a JSON array, and
\* a JSON object with or without the members location and category and with
\* or without a further member.
NoContent == [text |-> "none", location |-> Absent, category |-> Absent, extra |-> FALSE]

EmptyText == [text |-> "empty", location |-> Absent, category |-> Absent, extra |-> FALSE]

NotJson == [text |-> "invalid", location |-> Absent, category |-> Absent, extra |-> FALSE]

JsonArray == [text |-> "array", location |-> Absent, category |-> Absent, extra |-> FALSE]

JsonObject(loc, cat, extra) ==
    [text |-> "object", location |-> loc, category |-> cat, extra |-> extra]

LocationValues ==
    {Absent, Some(JNull), Some(JNumber("42"))}
    \cup {Some(JString(x)) : x \in {"", "  ", "Rome", " Rome "}}

CategoryValues ==
    {Absent, Some(JNull)}
    \cup {Some(JString(CATEGORIES[i])) : i \in 1..Len(CATEGORIES)}
    \cup {Some(JString(x)) : x \in {"museum", "Historic", " historic "}}

LLMReplies ==
    {LLMRaises, NoChoices}
    \cup {Message(c) : c \in {NoContent, EmptyText, NotJson, JsonArray}}
    \cup {Message(JsonObject(loc, cat, extra)) :
            loc \in LocationValues, cat \in CategoryValues, extra \in BOOLEAN}

Queries == {"museums in Rome", "Paris"}

\* The exception raised in the try block before `data` is there, "" if none:
\* by the API call, by choices[0], by json.loads, by data.get on a list.
ParseError(l) ==
    CASE l.kind = "raise" -> "APIError"
      [] l.kind = "no_choice" -> "IndexError"
      [] l.content.text = "invalid" -> "JSONDecodeError"
      [] l.content.text = "array" -> "AttributeError"
      [] OTHER -> ""

\* data.get(k, default), the default being a string.
GetOr(c, k, default) == IF c[k] = Absent THEN JString(default) ELSE c[k][1]

\* Python's `a or b` on strings.
StrOr(a, b) == IF a # "" THEN a ELSE b

\* if category not in CATEGORIES: category = "tourism"
Listed(category) == IF category \in Range(CATEGORIES) THEN category ELSE "tourism"

\* except Exception: every exception the try block raises is an Exception.
CaughtByParser(e) == e \in {"APIError", "IndexError", "JSONDecodeError", "AttributeError"}

\* parse_user_query: lines 41-56, and `except Exception` of lines 57-60, which
\* catches each of the exceptions above.
parse_user_query(q, l) ==
    IF ParseError(l) # ""
    THEN IF CaughtByParser(ParseError(l))
         THEN ToolReturns([location |-> q, category |-> "tourism"])
         ELSE ToolRaises(ParseError(l), "")
    ELSE LET data == IF l.content.text \in {"none", "empty"}
                     THEN JsonObject(Absent, Absent, FALSE)
                     ELSE l.content
         IN  ToolReturns([location |-> StrOr(Strip(Str(GetOr(data, "location", ""))), q),
                          category |-> Listed(Strip(Str(GetOr(data, "category", "tourism"))))])

ParserInit ==
    /\ query \in Queries
    /\ llm \in LLMReplies
    /\ parsed = NotParsed
    /\ last_payload = [t \in Tools |-> NoPayload]
    /\ OrchIdle
    /\ ServersIdle
    /\ AppIdle

ParseUserQuery ==
    /\ parsed = NotParsed
    /\ parsed' = parse_user_query(query, llm)
    /\ UNCHANGED <<query, llm>>
    /\ UNCHANGED <<orchVars, serverVars, appVars>>

ParserNext == ParseUserQuery

ParserSpec == ParserInit /\ [][ParserNext]_vars

\* ------------------------------------------------------------------------
\* handle_query on queries that the parser would take apart
\* ------------------------------------------------------------------------

\* The tool server returns every key of its result.
FullResult(t) == Structured(IF t = "geocoding" THEN {"lat", "lon"} ELSE {"content"})

\* Every tool has a client; its server answers with its full result, or not
\* at all.
QueryInit ==
    /\ query \in Queries
    /\ llm \in LLMReplies
    /\ parsed = NotParsed
    /\ clients = Tools
    /\ remote \in [Tools -> UNION {{FullResult(t), Hang} : t \in Tools}]
    /\ \A t \in Tools : remote[t] \in {FullResult(t), Hang}
    /\ pc = "start"
    /\ results = <<>>
    /\ geocode_data = NoneV
    /\ task = [n \in Optional |-> "none"]
    /\ call = [t \in Tools |-> "idle"]
    /\ calls = [t \in Tools |-> 0]
    /\ timer = [t \in Tools |-> "off"]
    /\ ready = <<"main">>
    /\ ntodo = 0
    /\ completed = <<>>
    /\ response = <<>>
    /\ raisedExc = ""
    /\ last_payload = [t \in Tools |-> NoPayload]
    /\ ServersIdle
    /\ AppIdle

QuerySpec == QueryInit /\ [][Next]_vars

\* ------------------------------------------------------------------------
\* Properties
\* ------------------------------------------------------------------------

\* The call of tool t ended without a value: it raised, its timeout expired,
\* or the lookup of its client raised KeyError.
CallFailed(t) == call[t] \in {"raised", "expired", "nokey"}

\* C1: when the geocoding call fails (it raises, times out, or has no
\* client), the result list never holds a geocoding or a poi entry, the POI
\* client is never invoked, and the response still holds the entry of every
\* optional source whose call returned.
C1_GeocodeFailureSkipsPoi ==
    CallFailed("geocoding") =>
        /\ "geocoding" \notin Sources(results)
        /\ "poi" \notin Sources(results)
        /\ calls["poi"] = 0 /\ call["poi"] = "idle"
        /\ pc = "returned" =>
              \A n \in Optional : call[n] = "returned" => n \in Sources(response)

\* A run in which geocoding raised, a POI client was configured, and the
\* response holds the Wikipedia entry.
C1_Witness ==
    /\ pc = "returned"
    /\ call["geocoding"] = "raised"
    /\ "poi" \in clients
    /\ "wikipedia" \in Sources(response)

\* C2: the sources of the response are exactly the tools whose call returned
\* within the timeout, each once; with geocoding returning lat and lon, POI
\* and Wikipedia returning and no trivia client, these are the three sources
\* geocoding, poi and wikipedia.
C2_OneEntryPerSuccess ==
    pc = "returned" =>
        /\ Sources(response) = {t \in Tools : call[t] = "returned"}
        /\ Len(response) = Cardinality(Sources(response))
        /\ ( /\ call["geocoding"] = "returned"
             /\ {"lat", "lon"} \subseteq geocode_data.keys
             /\ call["poi"] = "returned"
             /\ call["wikipedia"] = "returned"
             /\ "trivia" \notin clients )
           => /\ Len(response) = 3
              /\ Sources(response) = {"geocoding", "poi", "wikipedia"}

\* The end-to-end scenario: three results, no trivia client.
C2_Witness ==
    /\ pc = "returned"
    /\ "trivia" \notin clients
    /\ Len(response) = 3
    /\ Sources(response) = {"geocoding", "poi", "wikipedia"}

\* C3: handle_query never raises: whatever calls raise, time out or lack a
\* client, no exception leaves it, and in the response it returns a failed
\* source has no entry.
C3_NeverRaises ==
    /\ pc # "raised"
    /\ raisedExc = ""
    /\ pc = "returned" =>
          \A t \in Tools : CallFailed(t) => t \notin Sources(response)

\* A run with a raising call, an expired call and a missing client that
\* returns an empty response.
C3_Witness ==
    /\ pc = "returned"
    /\ response = <<>>
    /\ call["geocoding"] = "raised"
    /\ call["wikipedia"] = "expired"
    /\ call["trivia"] = "nokey"

\* The remote invocation failed: transport or protocol error, or the tool
\* server reported an error without structured output.
RemoteFailed(r) == r.kind = "error" \/ (r.kind = "result" /\ r.isError)

\* C4: whenever the remote invocation of a tool failed, MCPClient.call raised
\* and the response holds no entry for that source.
C4_FailedCallRaises ==
    pc = "returned" =>
        \A t \in Tools :
            (call[t] \in {"returned", "raised"} /\ RemoteFailed(remote[t]))
                => (call[t] = "raised" /\ t \notin Sources(response))

\* C5: every call in flight has its timeout armed; a call whose timeout
\* expired has no entry, however its server would have answered; an expired
\* geocoding call leaves geocode_data None and the POI client uninvoked, as a
\* raised one does; and an expired optional call does not keep any call that
\* returned from having its entry.  Entries are never removed.
C5_TimeoutInv ==
    /\ \A t \in Tools : call[t] = "inflight" => timer[t] = "armed"
    /\ \A t \in Tools : call[t] = "expired" => t \notin Sources(results)
    /\ (call["geocoding"] \in {"expired", "raised"} /\ pc # "await_geocoding")
          => (geocode_data = NoneV /\ calls["poi"] = 0)
    /\ pc = "returned" =>
          \A n \in Optional : call[n] = "expired" =>
              \A t \in Tools \ {n} : call[t] = "returned" => t \in Sources(response)

IsPrefix(s, t) == Len(s) <= Len(t) /\ \A i \in 1..Len(s) : s[i] = t[i]

C5_TimeoutLikeFailure == []C5_TimeoutInv /\ [][IsPrefix(results, results')]_vars

\* Wikipedia would have answered with content but its timeout expired first;
\* the geocoding and trivia entries are in the response.
C5_Witness ==
    /\ pc = "returned"
    /\ call["wikipedia"] = "expired"
    /\ remote["wikipedia"] = Structured({"content"})
    /\ {"geocoding", "trivia"} \subseteq Sources(response)

\* handle_query is past the geocoding step.
GeocodingStepOver == pc \notin {"start", "await_geocoding"}

\* The geocoding call returned within the timeout with both coordinates.
ReturnedCoords ==
    /\ call["geocoding"] = "returned"
    /\ {"lat", "lon"} \subseteq wait_for("geocoding").data.keys

\* The parts of C6 about the geocoding entry: a geocoding result that lacks
\* a coordinate is still appended and POI is not called, and a failed POI
\* call leaves the geocoding entry in the results.
C6_GeocodingEntryKept ==
    /\ (GeocodingStepOver /\ call["geocoding"] = "returned" /\ ~ReturnedCoords)
          => ("geocoding" \in Sources(results) /\ calls["poi"] = 0)
    /\ call["poi"] \in {"raised", "expired"} => "geocoding" \in Sources(results)

\* C6 as stated: once the geocoding step is over, the POI client has been
\* invoked if and only if the geocoding call returned within the timeout with
\* both lat and lon.
C6_PoiIffCoords_Original ==
    /\ GeocodingStepOver => (calls["poi"] >= 1 <=> ReturnedCoords)
    /\ C6_GeocodingEntryKept

\* C6, amended: once the geocoding step is over, the POI client has been
\* invoked if and only if the geocoding call returned within the timeout with
\* both lat and lon and the client map has a POI client.
C6_PoiIffCoordsAndClient ==
    /\ GeocodingStepOver => (calls["poi"] >= 1 <=> (ReturnedCoords /\ "poi" \in clients))
    /\ C6_GeocodingEntryKept

\* Geocoding returned only a latitude: its entry is in the response and the
\* configured POI client was not invoked.
C6_Witness ==
    /\ pc = "returned"
    /\ "poi" \in clients
    /\ call["geocoding"] = "returned"
    /\ geocode_data = Dict({"lat"})
    /\ "geocoding" \in Sources(response)
    /\ calls["poi"] = 0

\* C7: the POI call starts only after the geocoding call has ended, and once
\* a call_optional task exists the geocoding call has ended or was never
\* made and the POI call is not in flight.
C7_SequentialThenConcurrent ==
    /\ calls["poi"] >= 1 => call["geocoding"] \in {"returned", "raised", "expired"}
    /\ \A n \in Optional :
          (task[n] # "none" \/ call[n] # "idle") =>
              /\ call["geocoding"] \notin {"idle", "inflight"}
              /\ call["poi"] # "inflight"

\* Both optional calls are in flight after a POI call that was made and ended.
C7_Witness ==
    /\ calls["poi"] = 1
    /\ call["poi"] = "expired"
    /\ call["wikipedia"] = "inflight"
    /\ call["trivia"] = "inflight"

\* The call of tool t has ended.
Ended(t) == call[t] \in {"returned", "raised", "expired"}

\* C8: the two call_optional tasks are created together and no optional call
\* ends while the other task has not yet taken its first step; handle_query
\* returns only when both tasks are done and no call is in flight, the
\* response is the result list, and the list does not change after the return.
C8_BarrierInv ==
    /\ \A n, m \in Optional : task[n] = "none" <=> task[m] = "none"
    /\ \A n, m \in Optional : (n # m /\ Ended(n)) => task[m] # "ready"
    /\ pc = "returned" =>
          /\ \A n \in Optional : task[n] = "done"
          /\ \A t \in Tools : call[t] # "inflight"
          /\ response = results

C8_StartedTogetherJoined ==
    []C8_BarrierInv /\ [][pc = "returned" => results' = results]_vars

\* Wikipedia, started first, is slow and times out; trivia ended before it
\* and has its entry; handle_query has returned after both.
C8_Witness ==
    /\ pc = "returned"
    /\ call["wikipedia"] = "expired"
    /\ completed[Len(completed)] = "wikipedia"
    /\ "trivia" \in Sources(response)

Pos(s, x) == CHOOSE i \in 1..Len(s) : s[i] = x

\* C9: a geocoding entry is first, a poi entry is second and follows the
\* geocoding entry, the wikipedia and trivia entries come after these and in
\* the order in which their calls ended, and the response is the result list.
C9_AppendOrder ==
    /\ "geocoding" \in Sources(results) => results[1].source = "geocoding"
    /\ "poi" \in Sources(results) =>
          /\ Len(results) >= 2
          /\ results[1].source = "geocoding"
          /\ results[2].source = "poi"
    /\ \A i, j \in 1..Len(results) :
          (i < j /\ results[i].source \in Optional) =>
              /\ results[j].source \in Optional
              /\ Pos(completed, results[i].source) < Pos(completed, results[j].source)
    /\ pc = "returned" => response = results

\* The order opposite to the order of gather's arguments.
C9_Witness ==
    /\ pc = "returned"
    /\ [i \in 1..Len(response) |-> response[i].source]
          = <<"geocoding", "poi", "trivia", "wikipedia">>

\* The order of gather's arguments.
C9_WitnessGatherOrder ==
    /\ pc = "returned"
    /\ [i \in 1..Len(response) |-> response[i].source]
          = <<"geocoding", "poi", "wikipedia", "trivia">>

\* C10: each client's call() is invoked at most once during handle_query.
C10_AtMostOnce == \A t \in Tools : calls[t] <= 1

\* All four tools were invoked, once each, although three of the calls failed.
C10_Witness ==
    /\ pc = "returned"
    /\ \A t \in Tools : calls[t] = 1
    /\ call["poi"] = "raised"
    /\ call["wikipedia"] = "expired"
    /\ call["trivia"] = "raised"

\* Caller p is inside `async with self._lock`.
InsideLock(p) == wpc[p] \in {"locked", "sleeping", "awake"}

\* C11, the part about one state: consecutive returns of wait() are at least
\* the interval apart, and a caller that is between acquiring the lock and
\* storing the timestamp, asleep or not, holds the lock.
C11_SpacingInv ==
    /\ \A i \in 1..(Len(returns) - 1) : returns[i + 1] - returns[i] >= Interval
    /\ \A p \in Callers : InsideLock(p) => lock = p

\* C11, the part about one step: the timestamp is read and written only by
\* the caller that holds the lock, and it never decreases.
C11_LockedAccess ==
    (last_call' # last_call \/ seen' # seen) =>
        /\ lock \in Callers
        /\ InsideLock(lock)
        /\ wpc'[lock] # wpc[lock]
        /\ \A q \in Callers \ {lock} : wpc'[q] = wpc[q] /\ seen'[q] = seen[q]
        /\ last_call' >= last_call

\* C11: under every interleaving of the callers of one limiter, no two calls
\* of wait() return less than the interval apart, the timestamp is accessed
\* only under the lock, the lock is held across the sleep and the timestamp
\* never decreases.
C11_RateLimited == []C11_SpacingInv /\ [][C11_LockedAccess]_vars

\* Two calls returned exactly one interval apart while a third caller queues
\* for the lock.
C11_Witness ==
    /\ Len(returns) = 2
    /\ returns[2] - returns[1] = Interval
    /\ \E p \in Callers : wpc[p] = "queued"

\* C12, the part about one state: a caller that has read the clock sleeps
\* for last_call + interval - now when that is positive and does not sleep
\* otherwise.
C12_DeficitInv ==
    \A p \in Callers :
        seen[p] # NotSeen =>
            LET deficit == seen[p].last + Interval - seen[p].now IN
            IF deficit > 0
            THEN slept[p] = deficit /\ wake_at[p] = seen[p].now + deficit
            ELSE slept[p] = NoSleep /\ wpc[p] # "sleeping"

\* C12, the part about one step: a caller that returns has stored the clock
\* reading of that moment, which is not before the end of its sleep.
C12_StampAfterSleep ==
    \A p \in Callers :
        (wpc[p] # "done" /\ wpc'[p] = "done") =>
            /\ last_call' = now
            /\ slept[p] # NoSleep => last_call' >= seen[p].now + slept[p]

\* C12: wait() sleeps exactly the remaining deficit when it is positive, does
\* not sleep otherwise, and then records the clock reading taken after the
\* sleep as the new last_call.
C12_SleepsDeficit == []C12_DeficitInv /\ [][C12_StampAfterSleep]_vars

\* A call that arrived one tick after the recorded time of the previous call
\* slept one tick less than the interval and returned.
C12_Witness ==
    \E p \in Callers :
        /\ wpc[p] = "done"
        /\ seen[p].last > 0
        /\ seen[p].now = seen[p].last + 1
        /\ slept[p] = Interval - 1

\* A call that arrived a full interval after the previous one did not sleep.
C12_WitnessNoSleep ==
    \E p \in Callers :
        /\ wpc[p] = "done"
        /\ seen[p].last > 0
        /\ seen[p].now >= seen[p].last + Interval
        /\ slept[p] = NoSleep

\* search_pois returned a list for a reply whose "elements" is a list of
\* objects.
PoisReturned ==
    /\ tool = "poi"
    /\ outcome.kind = "return"
    /\ upstream.kind = "json"
    /\ upstream.body.elements # Absent

\* The elements of the Overpass reply.
Upstream_elements == upstream.body.elements[1].items

\* An element carries a latitude and a longitude, directly or under "center",
\* whatever their values.
CoordOf(el, k) ==
    IF el[k] # Absent THEN el[k]
    ELSE IF el.center # Absent THEN el.center[1][k]
    ELSE Absent

HasCoordinates(el) == CoordOf(el, "lat") # Absent /\ CoordOf(el, "lon") # Absent

DistanceOf(el) ==
    _haversine(request.latitude, request.longitude,
               CoordOf(el, "lat")[1], CoordOf(el, "lon")[1])

\* The positions of the elements with coordinates: the candidates.
Candidates == {i \in 1..Len(Upstream_elements) : HasCoordinates(Upstream_elements[i])}

Returned(i) == \E j \in 1..Len(outcome.value) : outcome.value[j].name = Some(i)

NonDecreasing(out) == \A j \in 1..(Len(out) - 1) : out[j].distance <= out[j + 1].distance

\* C13: search_pois returns min(n, 20) entries, n being the number of upstream
\* elements with coordinates, in non-decreasing order of Haversine distance
\* from the search centre, and every candidate left out is at least as far as
\* every entry returned.
C13_NearestTwenty ==
    PoisReturned =>
        /\ Len(outcome.value) = Min(Cardinality(Candidates), TopN)
        /\ NonDecreasing(outcome.value)
        /\ \A i \in Candidates :
              ~Returned(i) =>
                  \A j \in 1..Len(outcome.value) :
                      DistanceOf(Upstream_elements[i]) >= outcome.value[j].distance

\* C14 as stated: the entries are ordered by importance first (descending)
\* and by distance among entries of equal importance, and there are at most
\* 20 of them.
ImportanceOf(entry) == Upstream_elements[entry.name[1]].importance

C14_ImportanceThenDistance_Original ==
    PoisReturned =>
        /\ Len(outcome.value) <= TopN
        /\ \A j \in 1..(Len(outcome.value) - 1) :
              LET a == outcome.value[j]
                  b == outcome.value[j + 1]
              IN  (ImportanceOf(a) # Absent /\ ImportanceOf(b) # Absent) =>
                      \/ ImportanceOf(a)[1] > ImportanceOf(b)[1]
                      \/ ImportanceOf(a)[1] = ImportanceOf(b)[1] /\ a.distance <= b.distance

\* C14: every list search_pois returns is ordered by distance alone
\* (ascending, entries of equal distance in upstream order, the importance
\* tag playing no part) and has at most 20 entries.
C14_DistanceOnly ==
    PoisReturned =>
        /\ Len(outcome.value) <= TopN
        /\ \A j \in 1..(Len(outcome.value) - 1) :
              LET a == outcome.value[j]
                  b == outcome.value[j + 1]
              IN  \/ a.distance < b.distance
                  \/ a.distance = b.distance /\ a.name[1] < b.name[1]

\* A reply with more than 20 located elements, among them a more important
\* one farther away than a less important one, was cut to 20 entries.
C14_Witness ==
    /\ PoisReturned
    /\ Len(outcome.value) = TopN
    /\ Len(Upstream_elements) > TopN
    /\ \E i, j \in 1..Len(outcome.value) :
          /\ i < j
          /\ ImportanceOf(outcome.value[i]) = Some(5)
          /\ ImportanceOf(outcome.value[j]) = Some(9)
          /\ outcome.value[i].distance < outcome.value[j].distance

\* The POI client has been called.
PoiCalled == last_payload["poi"] # NoPayload

ParsedQuery == parse_user_query(query, llm).value

\* C16: geocoding and Wikipedia are called with the parsed location and the
\* POI search with the parsed category.
C16_ParsedParametersUsed ==
    /\ calls["geocoding"] > 0 =>
          Field("location_name", ParsedQuery.location) \in last_payload["geocoding"]
    /\ calls["wikipedia"] > 0 =>
          Field("poi_name", ParsedQuery.location) \in last_payload["wikipedia"]
    /\ calls["poi"] > 0 =>
          Field("category", ParsedQuery.category) \in last_payload["poi"]

\* The result is the fallback: the raw query and "tourism".
IsFallback(v) == v = [location |-> query, category |-> "tourism"]

\* The model call or the parsing of its output failed.
ParsingFailed ==
    \/ llm.kind \in {"raise", "no_choice"}
    \/ llm.content.text \in {"invalid", "array"}

\* The model's output is a JSON object.
IsObject == llm.kind = "message" /\ llm.content.text = "object"

\* The location of the output is missing or empty, resp. a non-empty string.
LocationMissing ==
    \/ llm.content.location = Absent
    \/ llm.content.location[1].t = "null"
    \/ llm.content.location[1] = JString("")

LocationGiven ==
    /\ llm.content.location # Absent
    /\ llm.content.location[1].t = "string"
    /\ llm.content.location[1].s # ""

CategoryListed ==
    /\ llm.content.category # Absent
    /\ llm.content.category[1].t = "string"
    /\ llm.content.category[1].s \in Range(CATEGORIES)

\* C17: parse_user_query never raises and returns exactly the keys location
\* and category, the category a listed one; a failure gives the fallback; an
\* output with a non-empty location and a listed category is returned
\* unchanged; an unlisted category becomes "tourism" and an empty or missing
\* location the raw query.
C17_ParserTotal ==
    parsed # NotParsed =>
        /\ parsed.kind = "return"
        /\ DOMAIN parsed.value = {"location", "category"}
        /\ parsed.value.category \in Range(CATEGORIES)
        /\ ParsingFailed => IsFallback(parsed.value)
        /\ (IsObject /\ LocationGiven /\ CategoryListed) =>
              parsed.value = [location |-> llm.content.location[1].s,
                              category |-> llm.content.category[1].s]
        /\ (IsObject /\ ~CategoryListed) => parsed.value.category = "tourism"
        /\ (IsObject /\ LocationMissing) => parsed.value.location = query

\* get_trivia has run on a JSON answer of DuckDuckGo.
TriviaRan ==
    /\ tool = "trivia"
    /\ outcome # NotRun
    /\ upstream.kind = "json"
    /\ upstream.body.json = "object"

\* The candidate facts of the answer.
Facts == Range(CandidatesOf(upstream.body))

\* What a fact contains: a word of the topic, a word of the context (none if
\* the request has no context), one of the travel keywords.
HasTopicWord(c) ==
    \E i \in 1..Len(request.topic) : Lower(request.topic[i]) \in LowerText(c.text)

HasContextWord(c) ==
    /\ request.context # Absent
    /\ \E i \in 1..Len(request.context[1]) :
          Lower(request.context[1][i]) \in LowerText(c.text)

HasTravelKeyword(c) == LowerText(c.text) \cap TRAVEL_KEYWORDS # {}

StrictAccepts(c) == _extract_fact_strict(<<c>>, request) = c

StrictRejects(c) == _extract_fact_strict(<<c>>, request) = NoFact

RelaxedAccepts(c) == _extract_fact_relaxed(<<c>>, request) = c

Reliability(source) ==
    CASE Lower(source) = "wikipedia" -> 9
      [] Lower(source) = "britannica" -> 8
      [] Lower(source) = "duckduckgo" -> 6
      [] OTHER -> 5

\* The fact get_trivia selected, NoFact if none.
Selected == extract_fact(upstream.body, request)

LowReliability == outcome.kind = "raise" /\ outcome.msg = "Low reliability source"

\* C19: the reliability is the case-insensitive table lookup with default
\* 0.5; get_trivia raises the "Low reliability" RuntimeError exactly when the
\* selected fact scores below 0.6; every response has reliability >= 0.6, a
\* score of exactly 0.6 is accepted, and no fact of an unlisted source is
\* returned.
C19_ReliabilityThreshold ==
    TriviaRan =>
        /\ LowReliability <=> (Selected # NoFact /\ Reliability(Selected.source) < 6)
        /\ LowReliability => outcome.exc = "RuntimeError"
        /\ (Selected # NoFact /\ Reliability(Selected.source) = 6) => outcome.kind = "return"
        /\ outcome.kind = "return" =>
              /\ outcome.value.reliability = Reliability(outcome.value.source)
              /\ outcome.value.reliability >= 6
              /\ Lower(outcome.value.source) \in {"wikipedia", "britannica", "duckduckgo"}

\* A fact whose source scores exactly 0.6 was returned.
C19_Witness ==
    /\ TriviaRan
    /\ outcome.kind = "return"
    /\ outcome.value.reliability = 6

\* A fact of an unlisted source was selected and the call failed.
C19_WitnessLow ==
    /\ TriviaRan
    /\ LowReliability
    /\ Selected.source = "RandomBlog"

\* A source name in capitals got the score of its lower-case form.
C19_WitnessCase ==
    /\ TriviaRan
    /\ outcome.kind = "return"
    /\ outcome.value.source = "WIKIPEDIA"
    /\ outcome.value.reliability = 9

\* A tool of the geocoding or the POI server has run.
ServerRan == tool \in {"geocoding", "poi"} /\ outcome # NotRun

\* The failures of the upstream request: timeout, no connection, HTTP error
\* status, a body that is not JSON.
UpstreamFailed == upstream.kind \in {"timeout", "connect", "status", "invalid_json"}

\* A JSON body that is not of the shape the server reads: for geocoding a
\* list of objects, for POI an object whose "elements", if any, is a list of
\* objects.
UnexpectedShape ==
    /\ upstream.kind = "json"
    /\ IF tool = "geocoding"
       THEN \/ upstream.body.json # "array"
            \/ \E i \in 1..Len(upstream.body.items) :
                  upstream.body.items[i].json # "object"
       ELSE \/ upstream.body.json # "object"
            \/ /\ upstream.body.elements # Absent
               /\ \/ upstream.body.elements[1].json # "array"
                  \/ \E i \in 1..Len(upstream.body.elements[1].items) :
                        upstream.body.elements[1].items[i].json # "object"

\* An empty result list of the geocoding API.
NothingFound == tool = "geocoding" /\ upstream.kind = "json" /\ upstream.body = Array(<<>>)

\* C20: a tool of the geocoding or POI server raises nothing but
\* RuntimeError, and raises it for an upstream timeout, a connection error,
\* an HTTP error status, invalid JSON, a JSON body of unexpected shape and
\* (geocoding) an empty result list.
C20_OnlyRuntimeError ==
    ServerRan =>
        /\ outcome.kind = "raise" => outcome.exc = "RuntimeError"
        /\ (UpstreamFailed \/ UnexpectedShape \/ NothingFound) => outcome.kind = "raise"
        /\ NothingFound => outcome.msg = "Location not found"

C26_OnlyCoordinatelessSkipped ==
    (PoisReturned /\ Cardinality(Candidates) <= TopN) =>
        /\ \A i \in Candidates :
              \E j \in 1..Len(outcome.value) :
                  /\ outcome.value[j].name = Some(i)
                  /\ outcome.value[j].lat = CoordOf(Upstream_elements[i], "lat")[1]
                  /\ outcome.value[j].lon = CoordOf(Upstream_elements[i], "lon")[1]
                  /\ outcome.value[j].distance = DistanceOf(Upstream_elements[i])
        /\ \A j \in 1..Len(outcome.value) : outcome.value[j].name[1] \in Candidates

\* The first position of the candidate list whose fact satisfies P, 0 if
\* there is none.
FirstIndex(P(_)) ==
    LET cands == CandidatesOf(upstream.body)
        hits == {i \in 1..Len(cands) : P(cands[i])}
    IN  IF hits = {} THEN 0 ELSE CHOOSE i \in hits : \A k \in hits : i <= k

\* The position of the candidate the claim has get_trivia select: the first
\* that passes the strict filter, else the first with a topic word and a
\* context word, else the first with a topic word; 0 if there is none.
Choice ==
    LET strict == FirstIndex(LAMBDA c : matches_context(c.text, request))
        both == FirstIndex(LAMBDA c : HasTopicWord(c) /\ HasContextWord(c))
        topic == FirstIndex(LAMBDA c : HasTopicWord(c))
    IN  IF strict # 0 THEN strict ELSE IF both # 0 THEN both ELSE topic

Chosen == CandidatesOf(upstream.body)[Choice]

\* C28: get_trivia selects one candidate in candidate order (strict filter
\* first, then topic word and context word, then topic word) and fails with
\* "No travel-relevant trivia found" if there is none; the reliability
\* threshold applies to the selected candidate only: it is returned if its
\* source scores at least 0.6, and the call fails otherwise, whatever the
\* later candidates are.
C28_SelectionOrder ==
    TriviaRan =>
        IF Choice = 0
        THEN outcome.kind = "raise" /\ outcome.msg = "No travel-relevant trivia found"
        ELSE IF Reliability(Chosen.source) >= RELIABILITY_THRESHOLD
        THEN /\ outcome.kind = "return"
             /\ outcome.value.trivia = Chosen.text
             /\ outcome.value.source = Chosen.source
        ELSE outcome.kind = "raise" /\ outcome.msg = "Low reliability source"

\* The selected candidate was below the threshold and the call failed,
\* although a later candidate of a reliable source has a topic word.
C28_Witness ==
    /\ TriviaRan
    /\ LowReliability
    /\ Choice = 1
    /\ \E i \in 2..Len(CandidatesOf(upstream.body)) :
          /\ HasTopicWord(CandidatesOf(upstream.body)[i])
          /\ Reliability(CandidatesOf(upstream.body)[i].source) >= RELIABILITY_THRESHOLD

\* No candidate passed the strict filter and the first one with a topic word
\* was returned.
C28_WitnessRelaxed ==
    /\ TriviaRan
    /\ outcome.kind = "return"
    /\ FirstIndex(LAMBDA c : matches_context(c.text, request)) = 0
    /\ Choice # 0

\* The tool of the Wikipedia server has ended.
WikiRan == tool = "wikipedia" /\ outcome # NotRun

\* C27: every upstream request of the Wikipedia server is sent at least the
\* limiter interval of 1/1.2 seconds after the previous one.
C27_RequestsSpaced ==
    tool = "wikipedia" =>
        \A i \in 2..Len(upstream) :
            upstream[i].at - upstream[i - 1].at >= WikipediaInterval

\* A call of get_trivia or of get_wikipedia_info has ended.
EnrichRan == tool \in {"trivia", "wikipedia"} /\ outcome # NotRun

\* The failures C21 lists.  Trivia: the request times out, fails to connect
\* or is answered with an error status, the body is not JSON or is no
\* object, no candidate is selected, or the selected one is of a source
\* below the threshold.
TriviaFailure ==
    \/ upstream.kind \in {"timeout", "connect", "status", "invalid_json"}
    \/ upstream.body.json # "object"
    \/ Choice = 0
    \/ Reliability(Chosen.source) < RELIABILITY_THRESHOLD

\* Wikipedia: the last request was not answered with the JSON object of a
\* page that has an extract.
WikiFailure ==
    LET reply == upstream[Len(upstream)].reply IN
    \/ reply.kind # "json"
    \/ upstream[Len(upstream)].req = "opensearch"
    \/ reply.body.json # "object"
    \/ reply.body.extract = Absent

\* C21: a tool of the trivia or Wikipedia server raises nothing but
\* RuntimeError, and raises it for every failure: timeout, HTTP or
\* connection error, malformed upstream response, nothing found, and
\* (trivia) a source below the reliability threshold.
C21_OnlyRuntimeError ==
    EnrichRan =>
        /\ outcome.kind = "raise" => outcome.exc = "RuntimeError"
        /\ (tool = "trivia" /\ TriviaFailure) => outcome.kind = "raise"
        /\ (tool = "wikipedia" /\ WikiFailure) => outcome.kind = "raise"

\* The part of C21 that holds: every failure ends in an exception, which is
\* a RuntimeError unless the upstream response is malformed.
C21_FailuresRaise ==
    EnrichRan =>
        /\ (tool = "trivia" /\ TriviaFailure) => outcome.kind = "raise"
        /\ (tool = "wikipedia" /\ WikiFailure) => outcome.kind = "raise"
        /\ (outcome.kind = "raise" /\ outcome.exc # "RuntimeError") =>
              IF tool = "trivia"
              THEN upstream.kind = "invalid_json" \/ upstream.body.json # "object"
              ELSE LET last == upstream[Len(upstream)] IN
                   /\ last.reply.kind = "json"
                   /\ last.reply.body.json # "object"

\* ------------------------------------------------------------------------
\* The HTTP endpoints (app/main.py) and MCPClient.health
\* ------------------------------------------------------------------------

HttpOk(body) == [status |-> 200, detail |-> "", body |-> body]

\* raise HTTPException(code, detail=detail)
HttpError(code, detail) == [status |-> code, detail |-> detail, body |-> <<>>]

query_agent_strict(p, res, exc) ==
    IF p = "returned" /\ \A t \in clients : t \in Sources(res)
    THEN HttpOk(res)
    ELSE HttpError(500, "Agent processing failed")

\* query_agent: what POST /query answers once handle_query has returned
\* `res` (p = "returned") or raised the exception exc (p = "raised").
query_agent(p, res, exc) ==
    IF p = "returned"
    THEN HttpOk(res)
    ELSE HttpError(500, "Agent processing failed")

\* How the connection to a tool server and session.initialize() can go.
Handshakes == {"ok", "ConnectError", "TimeoutError"}

MCPClient_health_raising(h) == IF h = "ok" THEN "True" ELSE h

\* MCPClient.health: True after the handshake, False for any exception.
MCPClient_health(h) == IF h = "ok" THEN "True" ELSE "False"

\* The service names of GET /health/{service}: the tools, and a name that
\* no client map has.
Services == Tools \cup {"weather"}

\* health: what GET /health/{service} answers; `result` is what
\* client.health() did, if the service has a client.
health(service, result) ==
    IF service \notin clients
    THEN HttpError(404, "unknown service")
    ELSE IF result = "True"
    THEN HttpOk(<<Field("status", "ok")>>)
    ELSE IF result = "False"
    THEN HttpError(503, "unhealthy")
    ELSE HttpError(500, "Internal Server Error")

\* POST /query: query_agent answers when handle_query has ended.
QueryAgent ==
    /\ pc \in {"returned", "raised"}
    /\ query_answer = NoAnswer
    /\ query_answer' = query_agent(pc, response, raisedExc)
    /\ UNCHANGED <<health_check, health_answer>>
    /\ UNCHANGED <<orchVars, parserVars, serverVars, sharedVars>>

\* GET /health/{service}, the handshake with the service's server going as h.
Health(service, h) ==
    /\ LET known == service \in clients
           result == IF known THEN MCPClient_health(h) ELSE ""
       IN  /\ ~known => h = "ok"
           /\ health_check' = [service |-> service,
                               handshake |-> IF known THEN h ELSE "",
                               result |-> result]
           /\ health_answer' = health(service, result)
    /\ health_answer = NoAnswer
    /\ UNCHANGED query_answer
    /\ UNCHANGED <<orchVars, parserVars, serverVars, sharedVars>>

\* Any client map; a configured tool server answers with its full result,
\* refuses the connection, or does not answer.
ApiInit ==
    /\ Init
    /\ \A t \in clients : remote[t] \in {FullResult(t), Fails("ConnectError"), Hang}

ApiNext ==
    \/ Next
    \/ QueryAgent
    \/ \E service \in Services, h \in Handshakes : Health(service, h)

ApiSpec == ApiInit /\ [][ApiNext]_vars

\* A step of a coroutine of handle_query.
CoroutineStep ==
    \/ HandleQuery
    \/ GeocodingDone
    \/ PoiDone
    \/ \E n \in Optional : OptionalStart(n)
    \/ \E n \in Optional : OptionalDone(n)
    \/ GatherDone

\* handle_query on a running event loop whose timers fire: the loop keeps
\* iterating, runs the coroutines of its ready queue, and the timeout of a
\* call in flight expires.  The tool servers need not answer: each
\* answers in full, refuses the connection, or stays silent.
FairSpec ==
    /\ ApiInit
    /\ [][Next]_vars
    /\ WF_vars(RunOnce)
    /\ WF_vars(CoroutineStep)
    /\ \A t \in Tools : WF_vars(TimerExpire(t))

\* POST /query has been answered.
Answered == query_answer # NoAnswer

\* The call of tool t failed or timed out.
CallEndedBadly(t) == call[t] \in {"raised", "expired"}

\* The call of tool t returned the server's full result.
Succeeded(t) == call[t] = "returned" /\ remote[t] = FullResult(t)

C22_WitnessThree ==
    /\ Answered
    /\ clients = {"geocoding", "poi", "wikipedia"}
    /\ Succeeded("geocoding") /\ Succeeded("poi") /\ Succeeded("wikipedia")
    /\ Len(query_answer.body) = 3

\* GET /health/{service} has been answered.
Checked == health_answer # NoAnswer

C23_Answer ==
    Checked =>
        /\ health_check.service \in clients =>
              /\ health_check.result \in {"True", "False"}
              /\ health_check.result = "True" <=> health_check.handshake = "ok"
        /\ (health_answer.status = 200 /\ health_answer.body = <<Field("status", "ok")>>)
              <=> (health_check.service \in clients /\ health_check.result = "True")
        /\ health_answer.status = 503
              <=> (health_check.service \in clients /\ health_check.result = "False")
        /\ health_answer.status = 404 <=> health_check.service \notin clients

\* A health check starts no call of a tool.
C23_NoToolCall ==
    health_answer' # health_answer => (calls' = calls /\ call' = call)

\* C23: MCPClient.health only performs the handshake (no tool is invoked),
\* never raises and returns True exactly when the handshake succeeded;
\* GET /health/{service} answers 200 {"status": "ok"} exactly when the health
\* check of the named service returned True, 503 exactly when it returned
\* False, and 404 exactly when the name is not in the client map.
C23_HealthEndpoint == []C23_Answer /\ [][C23_NoToolCall]_vars

\* An unhealthy service was reported with 503 while handle_query waited for
\* a call.
C23_Witness ==
    /\ Checked
    /\ health_answer.status = 503
    /\ health_check.handshake = "ConnectError"
    /\ \E t \in Tools : call[t] = "inflight"

C23_WitnessOk ==
    /\ Checked
    /\ health_answer.status = 200
    /\ health_check.handshake = "ok"

C23_WitnessUnknown ==
    /\ Checked
    /\ health_answer.status = 404
    /\ health_check.service = "weather"

\* ------------------------------------------------------------------------
\* Concurrent handle_query invocations on the orchestrator of app/main.py
\* ------------------------------------------------------------------------

Slot_shared(r) == 1

\* Where invocation r keeps `results` and `geocode_data`: they are locals of
\* the coroutine (orchestrator.py lines 42, 47), one of each per invocation.
Slot(r) == r

\* What the server of tool t returns to the call of invocation r: the
\* result is identified by the call that it answers.
DataOf(r, t) == <<r, t>>

\* self.clients[t].call(payload) by invocation r.
MakeCall(r, t) == made' = [made EXCEPT ![r][t] = "inflight"]

\* The call of tool t by invocation r ends: it returns (ok), or it raises or
\* times out.
EndCall(r, t, ok) ==
    /\ made' = [made EXCEPT ![r][t] = IF ok THEN "returned" ELSE "failed"]
    /\ qresults' = IF ok
                   THEN [qresults EXCEPT ![Slot(r)] = AppendResult(@, t, DataOf(r, t))]
                   ELSE [qresults EXCEPT ![Slot(r)] = OnException(@, t)]

\* Lines 82-85 for invocation r.
SharedStartGather(r) ==
    /\ qpc' = [qpc EXCEPT ![r] = "await_gather"]
    /\ qtask' = [qtask EXCEPT ![r] = [n \in Optional |-> "ready"]]

\* POST /query arrives: query_agent calls handle_query, which runs to its
\* first await (lines 41-50).
SharedHandleQuery(r) ==
    /\ qpc[r] = "idle"
    /\ qpc' = [qpc EXCEPT ![r] = "await_geocoding"]
    /\ qresults' = [qresults EXCEPT ![Slot(r)] = <<>>]
    /\ MakeCall(r, "geocoding")
    /\ UNCHANGED <<qgeo, qtask, qresponse>>
    /\ UNCHANGED <<orchVars, parserVars, serverVars, apiVars>>

\* Lines 47-68 for invocation r, the geocoding call having ended.
SharedGeocodingDone(r, ok) ==
    /\ qpc[r] = "await_geocoding"
    /\ LET gd == IF ok THEN Dict({"lat", "lon"}) ELSE FailedGeocodeData IN
       /\ qgeo' = [qgeo EXCEPT ![Slot(r)] = gd]
       /\ qresults' = IF ok
                      THEN [qresults EXCEPT ![Slot(r)] =
                               AppendResult(@, "geocoding", DataOf(r, "geocoding"))]
                      ELSE [qresults EXCEPT ![Slot(r)] = OnException(@, "geocoding")]
       /\ IF HasCoords(gd)
          THEN /\ qpc' = [qpc EXCEPT ![r] = "await_poi"]
               /\ made' = [made EXCEPT ![r]["geocoding"] = "returned",
                                       ![r]["poi"] = "inflight"]
               /\ qtask' = qtask
          ELSE /\ SharedStartGather(r)
               /\ made' = [made EXCEPT ![r]["geocoding"] = "failed"]
    /\ UNCHANGED qresponse
    /\ UNCHANGED <<orchVars, parserVars, serverVars, apiVars>>

\* Lines 63-85 for invocation r, the POI call having ended.
SharedPoiDone(r, ok) ==
    /\ qpc[r] = "await_poi"
    /\ EndCall(r, "poi", ok)
    /\ SharedStartGather(r)
    /\ UNCHANGED <<qgeo, qresponse>>
    /\ UNCHANGED <<orchVars, parserVars, serverVars, apiVars>>

\* Lines 71-75 for the task call_optional(n, ...) of invocation r.
SharedOptionalStart(r, n) ==
    /\ qtask[r][n] = "ready"
    /\ qtask' = [qtask EXCEPT ![r][n] = "waiting"]
    /\ MakeCall(r, n)
    /\ UNCHANGED <<qpc, qresults, qgeo, qresponse>>
    /\ UNCHANGED <<orchVars, parserVars, serverVars, apiVars>>

\* Lines 73-80 for the task call_optional(n, ...) of invocation r.
SharedOptionalDone(r, n, ok) ==
    /\ qtask[r][n] = "waiting"
    /\ qtask' = [qtask EXCEPT ![r][n] = "done"]
    /\ EndCall(r, n, ok)
    /\ UNCHANGED <<qpc, qgeo, qresponse>>
    /\ UNCHANGED <<orchVars, parserVars, serverVars, apiVars>>

\* Lines 82-87 for invocation r: gather is done, AgentResponse is returned.
SharedGatherDone(r) ==
    /\ qpc[r] = "await_gather"
    /\ \A n \in Optional : qtask[r][n] = "done"
    /\ qpc' = [qpc EXCEPT ![r] = "returned"]
    /\ qresponse' = [qresponse EXCEPT ![r] = qresults[Slot(r)]]
    /\ UNCHANGED <<qresults, qgeo, qtask, made>>
    /\ UNCHANGED <<orchVars, parserVars, serverVars, apiVars>>

\* The orchestrator that create_orchestrator builds, no request yet.
SharedInit ==
    /\ SharedIdle
    /\ ApiIdle
    /\ OrchIdle
    /\ ParserIdle
    /\ ServersIdle

SharedNext ==
    \E r \in Requests :
        \/ SharedHandleQuery(r)
        \/ \E ok \in BOOLEAN : SharedGeocodingDone(r, ok)
        \/ \E ok \in BOOLEAN : SharedPoiDone(r, ok)
        \/ \E n \in Optional : SharedOptionalStart(r, n)
        \/ \E n \in Optional, ok \in BOOLEAN : SharedOptionalDone(r, n, ok)
        \/ SharedGatherDone(r)

SharedSpec == SharedInit /\ [][SharedNext]_vars

\* C25: of concurrent handle_query invocations on the one orchestrator, each
\* returns exactly the entries of its own calls that returned, at most one
\* per source: no entry of another invocation's call is in its response, and
\* none of its own is missing.
C25_Independent ==
    \A r \in Requests :
        qpc[r] = "returned" =>
            /\ \A i \in 1..Len(qresponse[r]) :
                  LET e == qresponse[r][i] IN
                  /\ made[r][e.source] = "returned"
                  /\ e.data = DataOf(r, e.source)
            /\ \A i, j \in 1..Len(qresponse[r]) :
                  qresponse[r][i].source = qresponse[r][j].source => i = j
            /\ \A t \in Tools :
                  made[r][t] = "returned" => t \in Sources(qresponse[r])

\* One invocation has returned its four entries while another, which has
\* collected its geocoding entry, has both optional calls in flight.
C25_Witness ==
    /\ qpc[1] = "returned"
    /\ Len(qresponse[1]) = 4
    /\ qpc[2] = "await_gather"
    /\ Len(qresults[2]) = 1
    /\ \A n \in Optional : made[2][n] = "inflight"

\* Two invocations have returned, one with four entries and one with none.
C25_WitnessBoth ==
    /\ qpc[1] = "returned" /\ qpc[2] = "returned"
    /\ Len(qresponse[1]) = 0
    /\ Len(qresponse[2]) = 4

\* The remote calls handle_query has made.
TotalCalls == calls["geocoding"] + calls["poi"] + calls["wikipedia"] + calls["trivia"]

\* C29: handle_query terminates: with timeouts that fire, every call in
\* flight ends (by return, exception or expiry), at most four remote calls
\* are made, and handle_query eventually returns its AgentResponse, also when
\* tool servers never answer.
C29_Terminates ==
    /\ <>(pc = "returned")
    /\ [](TotalCalls <= 4)
    /\ \A t \in Tools : (call[t] = "inflight") ~> (call[t] # "inflight")

\* handle_query has returned although no tool server answered: the calls
\* of geocoding, Wikipedia and trivia expired.
C29_Witness ==
    /\ pc = "returned"
    /\ clients = Tools
    /\ \A t \in Tools : remote[t] = Hang
    /\ \A t \in Tools \ {"poi"} : call[t] = "expired"
    /\ response = <<>>

\* Four remote calls were made and handle_query returned.
C29_WitnessFour ==
    /\ pc = "returned"
    /\ TotalCalls = 4
    /\ call["poi"] = "expired"

\* The callers that are inside `async with self._lock`.
Inside == {p \in Callers : wpc[p] \in {"locked", "sleeping", "awake"}}

\* The callers whose call of wait() has begun and not ended.
Waiting == {p \in Callers : wpc[p] \in {"queued", "locked", "sleeping", "awake"}}

C30_OneAtATime ==
    /\ Cardinality(Inside) <= 1
    /\ \A p \in Inside : lock = p
    /\ Inside = {} => lock = NoCaller

\* C30: under fair scheduling every call of wait() ends (it returns, or it
\* is cancelled), so no caller waits forever; the callers are inside the
\* lock one at a time, and the lock is free whenever nobody is inside, that
\* is, after every exit from wait().
C30_WaitReturns ==
    /\ []C30_OneAtATime
    /\ \A p \in Callers : (p \in Waiting) ~> (wpc[p] \in {"done", "cancelled"})

\* Every caller has returned from wait(), the last one after a sleep behind
\* the others.
C30_Witness ==
    /\ \A p \in Callers : wpc[p] = "done"
    /\ Len(returns) = NumCallers
    /\ \A p \in Callers \ {1} : slept[p] # NoSleep
    /\ lock = NoCaller

====
